---------------------------- MODULE Spec2Model ----------------------------
(***************************************************************************)
(* A model of the caching registry proxy: the manifest cache               *)
(* (src/crproxy_manifest.go), the gateway entry (Gateway.ServeHTTP) and    *)
(* the blob agent (Agent.Serve, worker, downloadBlobWorker, cacheBlob),    *)
(* the policy resolver (src/pkg/auth/auth.go) and the token codec          *)
(* (src/pkg/token/encoding.go).                                            *)
(* Each subsystem has its own specification over the shared variables:     *)
(*   SpecManifest, SpecGateway (with Agent.ServeHTTP), SpecAgent,          *)
(*   SpecPolicy, SpecAuth, SpecCodec.                                      *)
(***************************************************************************)
EXTENDS Integers, Sequences, FiniteSets, TLC

VARIABLES
  storageDriver,          \* CRProxy.storageDriver: path -> content, its domain the files that exist
  manifestCache,          \* CRProxy.manifestCache: link path -> time of the last Store
  manifestCacheDuration,  \* CRProxy.manifestCacheDuration (set by WithManifestCacheDuration)
  now,                    \* the clock read by time.Now() / time.Since()
  mreq,                   \* the manifest requests in flight: one record per client
  gateway,                \* the Gateway struct: the options NewGateway was given
  greq,                   \* the request Gateway.ServeHTTP is handling
  agent,                  \* the Agent struct: the options NewAgent was given
  origin,                 \* the origin registry: digest -> the size of the blob it serves
  blobCache,              \* Agent.blobCache: digest -> entry (size or error), in memory
  cache,                  \* Agent.cache: digest -> size of the blob stored in the primary cache
  bigCache,               \* Agent.bigCache: digest -> size of the blob stored in the big cache
  queue,                  \* Agent.queue: BlobInfo -> its entry, from AddWeight until finish()
  groupQueue,             \* Agent.groupQueue: the downloadBlob entries waiting for a download worker
  worker,                 \* the admission workers: worker -> position in Agent.worker
  areq,                   \* the blob requests in flight: one record per client
  upstream,               \* digest -> the number of upstream GETs cacheBlob has issued
  healthy,                \* no origin or storage failure has occurred so far
  nreq,                   \* the number of blob requests started
  registryRecord,         \* the model.Registry the RegistryService holds for the service
  registryCache,          \* AuthManager.registryCache: service -> cached response
  tokenCache,             \* AuthManager.tokenCache: userKey -> cached response
  authNow,                \* the clock of the resolver's caches, in seconds
  ucall,                  \* the last GetTokenWithUser call and what it returned
  codec,                  \* a token on its way through Encoder.Encode and Decoder.Decode
  limit,                  \* Agent.blobNoRedirectLimit: the tokens its bucket holds
  message,                \* the work queue service: digest -> the message created for it
  pool,                   \* NewAgent at its download pools: the queues and their workers
  put                     \* a call of Cache.put: the writer, the object under the key

mvars == <<storageDriver, manifestCache, manifestCacheDuration, now, mreq>>
gvars == <<gateway, greq>>
avars == <<agent, origin, blobCache, cache, bigCache, queue, groupQueue, worker, areq,
           upstream, healthy, nreq>>
uvars == <<registryRecord, registryCache, tokenCache, authNow, ucall>>
cvars == <<codec>>
qvars == <<limit, message>>
svars == <<pool, put>>
ovars == <<uvars, cvars, qvars, svars>>
vars == <<mvars, gvars, avars, uvars, cvars, qvars, svars>>

(***************************************************************************)
(* Bounds and the small sets the inputs are drawn from.                    *)
(***************************************************************************)
MaxTime == 2
CacheDuration == 1
\* Agent.concurrency, Agent.bigCacheSize and the number of blob requests a behaviour starts
Concurrency == 1
BigCacheSize == 2
MaxRequests == 3
\* Agent.blobNoRedirectSize when it is set, and the burst of Agent.blobNoRedirectLimit
NoRedirectSize == 2
Burst == 2

\* The largest Agent.concurrency NewAgent is given, and the bytes a reader may hold
MaxPoolConcurrency == 10
MaxBytes == 3

\* the step of the resolver's clock and the time it stops at, in seconds
TickStep == 4
MaxAuthTime == 12

Clients == {"c1", "c2"}
Hosts == {"docker.io"}
Images == {"library/busybox"}
Tags == {"1"}
\* Origin bodies: a manifest (a JSON document) and a body that is not JSON
\* (an HTML error page).
Bodies == {"manifest", "html"}
Methods == {"GET", "HEAD"}
Statuses == {200, 401, 404, 503}

\* json.Unmarshal(content, &mt) succeeds
IsJSON(content) == content # "html"

\* hex.EncodeToString(sha256(content)): injective on Bodies
Hash(content) ==
  CASE content = "manifest" -> "aa11"
    [] content = "html" -> "bb22"
    [] OTHER -> "e3b0"

\* A reference is the pair <<prefix, rest>> standing for the string prefix + rest:
\* <<"sha256:", hex>> is a digest, <<"", tag>> a tag.
RefHexes == {Hash("manifest")}
Refs == {<<"", t>> : t \in Tags} \cup {<<"sha256:", h>> : h \in RefHexes}

\* strings.HasPrefix(info.Manifests, "sha256:")
isHash(ref) == ref[1] = "sha256:"

manifestRevisionsCachePath(host, image, tagOrBlob) ==
  <<"revisions", host, image, tagOrBlob>>

manifestTagCachePath(host, image, tagOrBlob) ==
  <<"tags", host, image, tagOrBlob>>

\* keyed by the hex digest alone: a "sha256:" prefix is trimmed
blobCachePath(digest) ==
  <<"blobs", IF Len(digest) = 2 /\ digest[1] = "sha256:" THEN digest[2] ELSE digest>>

\* storageDriver.PutContent(path, content) that succeeded
PutContent(st, path, content) ==
  [p \in DOMAIN st \cup {path} |-> IF p = path THEN content ELSE st[p]]

\* maps.SyncMap.Store
Store(m, key, t) ==
  [k \in DOMAIN m \cup {key} |-> IF k = key THEN t ELSE m[k]]

(***************************************************************************)
(* http.ResponseWriter: the first WriteHeader fixes the status, a Write     *)
(* before any WriteHeader sends 200, and a handler that returns without     *)
(* either answers 200 with no body.                                         *)
(***************************************************************************)
NewRW == [code |-> 0, body |-> "", digest |-> ""]

WriteHeader(rw, code) == IF rw.code = 0 THEN [rw EXCEPT !.code = code] ELSE rw

Write(rw, content) == [WriteHeader(rw, 200) EXCEPT !.body = content]

\* errcode.ServeJSON(rw, err): the status of the error code, then the JSON envelope
ErrStatus(err) ==
  CASE err = "DENIED" -> 403
    [] err = "UNSUPPORTED" -> 405
    [] err = "UNAUTHORIZED" -> 401
    [] err = "BLOB_UNKNOWN" -> 404
    [] OTHER -> 500

ServeJSON(rw, err) == Write(WriteHeader(rw, ErrStatus(err)), "errcode:" \o err)

\* CRProxy.errorResponse: an error that is no errcode is served as UNKNOWN
errorResponse(rw) == ServeJSON(rw, "UNKNOWN")

(***************************************************************************)
(* The manifest cache.                                                     *)
(***************************************************************************)
IdleReq ==
  [pc |-> "idle", host |-> "", image |-> "", manifests |-> <<"", "">>, method |-> "",
   contacted |-> FALSE, status |-> 0, body |-> "", via |-> "", rw |-> NewRW,
   wrote |-> {}, tagCurrent |-> FALSE]

\* The link path both tryFirstServeCachedManifest and fallbackServeCachedManifest use
LinkPathOf(q) ==
  IF isHash(q.manifests)
  THEN manifestRevisionsCachePath(q.host, q.image, q.manifests[2])
  ELSE manifestTagCachePath(q.host, q.image, q.manifests[2])

\* serveCachedManifest, its reads: the link, the body it names, the JSON parse
CachedHit(st, manifestLinkPath) ==
  /\ manifestLinkPath \in DOMAIN st
  /\ blobCachePath(st[manifestLinkPath]) \in DOMAIN st
  /\ IsJSON(st[blobCachePath(st[manifestLinkPath])])

\* serveCachedManifest, its writes to the response on a hit
CachedRW(st, rw, method, manifestLinkPath) ==
  LET digest == st[manifestLinkPath]
      content == st[blobCachePath(digest)]
      hdr == [rw EXCEPT !.digest = digest[1] \o digest[2]]
  IN IF method # "HEAD" THEN Write(hdr, content) ELSE hdr

\* serveCachedManifest, its touch of the freshness map on a hit
CachedTouch(mc, manifestLinkPath) ==
  IF manifestCacheDuration > 0 THEN Store(mc, manifestLinkPath, now) ELSE mc

\* A first-serve that makes no freshness check at all
FirstServeUnchecked(q) == TRUE

\* A first-serve that makes the freshness check for digest references too
FirstServeCheckedForAll(q) ==
  IF manifestCacheDuration > 0
  THEN /\ LinkPathOf(q) \in DOMAIN manifestCache
       /\ ~(now - manifestCache[LinkPathOf(q)] > manifestCacheDuration)
  ELSE TRUE

\* tryFirstServeCachedManifest, the freshness check that precedes serveCachedManifest
FirstServeAllowed(q) ==
  IF ~isHash(q.manifests) /\ manifestCacheDuration > 0
  THEN /\ LinkPathOf(q) \in DOMAIN manifestCache
       /\ ~(now - manifestCache[LinkPathOf(q)] > manifestCacheDuration)
  ELSE TRUE

tryFirstServeCachedManifest(q) ==
  FirstServeAllowed(q) /\ CachedHit(storageDriver, LinkPathOf(q))

\* A fallback that never serves the cached manifest
fallbackNeverServes(q) == FALSE

fallbackServeCachedManifest(q) ==
  IF isHash(q.manifests) THEN FALSE ELSE CachedHit(storageDriver, LinkPathOf(q))

\* The handler returned: a response not yet started is sent as 200
Done(q) == [q EXCEPT !.pc = "done", !.rw = WriteHeader(q.rw, 200)]

\* A request arrives at cacheManifestResponse
MStart(c) ==
  /\ mreq[c].pc = "idle"
  /\ \E h \in Hosts, i \in Images, ref \in Refs, m \in Methods :
       mreq' = [mreq EXCEPT ![c] =
                  [IdleReq EXCEPT !.pc = "tryFirst", !.host = h, !.image = i,
                                  !.manifests = ref, !.method = m]]
  /\ UNCHANGED <<storageDriver, manifestCache, manifestCacheDuration, now>>
  /\ UNCHANGED <<gvars, avars, ovars>>

\* cacheManifestResponse, lines 30-32: tryFirstServeCachedManifest
MTryFirst(c) ==
  LET q == mreq[c] IN
  /\ q.pc = "tryFirst"
  /\ IF tryFirstServeCachedManifest(q)
     THEN /\ mreq' = [mreq EXCEPT ![c] =
                        Done([q EXCEPT !.via = "first",
                                       !.rw = CachedRW(storageDriver, q.rw, q.method, LinkPathOf(q))])]
          /\ manifestCache' = CachedTouch(manifestCache, LinkPathOf(q))
     ELSE /\ mreq' = [mreq EXCEPT ![c].pc = "origin"]
          /\ UNCHANGED manifestCache
  /\ UNCHANGED <<storageDriver, manifestCacheDuration, now>>
  /\ UNCHANGED <<gvars, avars, ovars>>

\* The fallback was a hit: serve the cached manifest and return
ServeFallback(c, q) ==
  /\ mreq' = [mreq EXCEPT ![c] =
                Done([q EXCEPT !.via = "fallback",
                               !.rw = CachedRW(storageDriver, q.rw, q.method, LinkPathOf(q))])]
  /\ manifestCache' = CachedTouch(manifestCache, LinkPathOf(q))

\* Whether the body of an origin response with this status is read and cached
\* (line 87)
CachesStatus(status) == status >= 200 \/ status < 300

\* cacheManifestContent, lines 106-114: the hash and the check of a digest reference
HashMatches(q, content) ==
  isHash(q.manifests) => q.manifests[2] = Hash(content)

\* cacheManifestResponse, lines 34-98: the origin request and what follows it up to
\* the first storage write
MOrigin(c) ==
  LET q0 == mreq[c] IN
  /\ q0.pc = "origin"
  /\ \E err \in BOOLEAN, status \in Statuses, content \in Bodies, readErr \in BOOLEAN :
       LET q == [q0 EXCEPT !.contacted = TRUE,
                           !.status = IF err THEN 0 ELSE status,
                           !.body = IF err \/ q0.method = "HEAD" THEN "" ELSE content]
           passed == [q EXCEPT !.via = "origin", !.rw = WriteHeader(q.rw, status)]
       IN
       /\ err => (status = 200 /\ content = "manifest" /\ ~readErr)
       /\ (q0.method = "HEAD") => (content = "manifest" /\ ~readErr)
       /\ IF err
          THEN IF fallbackServeCachedManifest(q)
               THEN ServeFallback(c, q)
               ELSE /\ mreq' = [mreq EXCEPT ![c] =
                                  Done([q EXCEPT !.via = "error", !.rw = ServeJSON(q.rw, "UNKNOWN")])]
                    /\ UNCHANGED manifestCache
          ELSE IF status \in {401, 403}
          THEN IF fallbackServeCachedManifest(q)
               THEN ServeFallback(c, q)
               ELSE /\ mreq' = [mreq EXCEPT ![c] =
                                  Done([q EXCEPT !.via = "error", !.rw = ServeJSON(q.rw, "DENIED")])]
                    /\ UNCHANGED manifestCache
          ELSE IF (status >= 400 \/ status < 200) /\ fallbackServeCachedManifest(q)
          THEN ServeFallback(c, q)
          ELSE /\ UNCHANGED manifestCache
               /\ IF q.method = "HEAD"
                  THEN mreq' = [mreq EXCEPT ![c] = Done(passed)]
                  ELSE IF ~CachesStatus(status)
                  THEN mreq' = [mreq EXCEPT ![c] = Done([passed EXCEPT !.rw = Write(passed.rw, content)])]
                  ELSE IF readErr \/ ~HashMatches(q, content)
                  THEN mreq' = [mreq EXCEPT ![c] = Done([passed EXCEPT !.rw = errorResponse(passed.rw)])]
                  ELSE mreq' = [mreq EXCEPT ![c] =
                                  [passed EXCEPT !.pc = IF isHash(q.manifests) THEN "putRev" ELSE "putTag"]]
  /\ UNCHANGED <<storageDriver, manifestCacheDuration, now>>
  /\ UNCHANGED <<gvars, avars, ovars>>

\* A storage write of cacheManifestContent failed: the error is served
MPutFail(c) ==
  LET q == mreq[c] IN
  /\ q.pc \in {"putTag", "putRev", "putBlob"}
  /\ mreq' = [mreq EXCEPT ![c] = Done([q EXCEPT !.rw = errorResponse(q.rw)])]
  /\ UNCHANGED <<storageDriver, manifestCache, manifestCacheDuration, now>>
  /\ UNCHANGED <<gvars, avars, ovars>>

\* cacheManifestContent, lines 116-123: the tag link and the freshness map
MPutTag(c) ==
  LET q == mreq[c]
      manifestLinkPath == manifestTagCachePath(q.host, q.image, q.manifests[2])
  IN
  /\ q.pc = "putTag"
  /\ storageDriver' = PutContent(storageDriver, manifestLinkPath, <<"sha256:", Hash(q.body)>>)
  /\ manifestCache' = IF manifestCacheDuration > 0
                      THEN Store(manifestCache, manifestLinkPath, now)
                      ELSE manifestCache
  /\ mreq' = [d \in Clients |->
                IF d = c
                THEN [q EXCEPT !.pc = "putRev", !.wrote = @ \cup {manifestLinkPath},
                               !.tagCurrent = TRUE]
                ELSE IF manifestLinkPath \in mreq[d].wrote
                THEN [mreq[d] EXCEPT !.tagCurrent = FALSE]
                ELSE mreq[d]]
  /\ UNCHANGED <<manifestCacheDuration, now>>
  /\ UNCHANGED <<gvars, avars, ovars>>

\* A cacheManifestContent that goes on to the body without writing the revision link
MPutRevSkipped(c) ==
  /\ mreq[c].pc = "putRev"
  /\ mreq' = [mreq EXCEPT ![c].pc = "putBlob"]
  /\ UNCHANGED <<storageDriver, manifestCache, manifestCacheDuration, now>>
  /\ UNCHANGED <<gvars, avars, ovars>>

\* cacheManifestContent, lines 126-130: the revision link
MPutRev(c) ==
  LET q == mreq[c]
      manifestLinkPath == manifestRevisionsCachePath(q.host, q.image, Hash(q.body))
  IN
  /\ q.pc = "putRev"
  /\ storageDriver' = PutContent(storageDriver, manifestLinkPath, <<"sha256:", Hash(q.body)>>)
  /\ mreq' = [mreq EXCEPT ![c].pc = "putBlob", ![c].wrote = @ \cup {manifestLinkPath}]
  /\ UNCHANGED <<manifestCache, manifestCacheDuration, now>>
  /\ UNCHANGED <<gvars, avars, ovars>>

\* cacheManifestContent, lines 132-137, then cacheManifestResponse line 99
MPutBlob(c) ==
  LET q == mreq[c]
      path == blobCachePath(Hash(q.body))
  IN
  /\ q.pc = "putBlob"
  /\ storageDriver' = PutContent(storageDriver, path, q.body)
  /\ mreq' = [mreq EXCEPT ![c] =
                Done([q EXCEPT !.wrote = @ \cup {path}, !.rw = Write(q.rw, q.body), !.via = "cached"])]
  /\ UNCHANGED <<manifestCache, manifestCacheDuration, now>>
  /\ UNCHANGED <<gvars, avars, ovars>>

\* The response has been sent; the client may ask again
MFinish(c) ==
  /\ mreq[c].pc = "done"
  /\ mreq' = [mreq EXCEPT ![c] = IdleReq]
  /\ UNCHANGED <<storageDriver, manifestCache, manifestCacheDuration, now>>
  /\ UNCHANGED <<gvars, avars, ovars>>

\* Time passes
MTick ==
  /\ now < MaxTime
  /\ now' = now + 1
  /\ UNCHANGED <<storageDriver, manifestCache, manifestCacheDuration, mreq>>
  /\ UNCHANGED <<gvars, avars, ovars>>

(***************************************************************************)
(* The gateway entry: Gateway.ServeHTTP and forward.                       *)
(* A path is the tuple of its segments: "/v2/" is <<"v2">>, "/v2/_catalog" *)
(* is <<"v2", "_catalog">>.  An Authorization header is << >> when absent   *)
(* and <<"Bearer", code>> otherwise.                                       *)
(***************************************************************************)
GMethods == {"GET", "HEAD", "POST"}

GPaths ==
  { <<"healthz">>,
    <<"v2">>,
    <<"v2", "_catalog">>,
    <<"v2", "docker.io", "library/busybox", "manifests", "1">>,
    <<"v2", "docker.io", "library/busybox", "blobs", "sha256:aa11">>,
    <<"v2", "docker.io", "library/busybox", "tags", "list">>,
    <<"v2", "library/busybox", "manifests", "1">>,
    <<"v2", "library">> }

AuthHeaders ==
  { << >>, <<"Bearer", "garbage">>, <<"Bearer", "anon">>, <<"Bearer", "pull">>,
    <<"Bearer", "blocked">>, <<"Bearer", "blockedquiet">>, <<"Bearer", "blockedanon">>,
    <<"Bearer", "mirror">>, <<"Bearer", "tags">> }

\* the ns query parameter ("" when the request has no query)
NsValues == {"", "docker.io", "quay.io"}

Registries == {"", "docker.io"}

\* the entry of overrideDefaultRegistry for r.Host ("" when the map is nil or has none)
Overrides == {"", "ghcr.io"}

prefix == <<"v2">>
catalog == <<"v2", "_catalog">>

\* strings.HasPrefix(oriPath, prefix)
HasPrefix(oriPath, pre) ==
  Len(oriPath) >= Len(pre) /\ SubSeq(oriPath, 1, Len(pre)) = pre

\* token.Token, the fields Gateway.ServeHTTP reads
ZeroToken ==
  [Scope |-> "", Block |-> FALSE, BlockMessage |-> "", AllowTagsList |-> FALSE,
   Attribute |-> [Host |-> "", Image |-> ""]]

PullToken == [ZeroToken EXCEPT !.Scope = "repository:docker.io/library/busybox:pull"]

\* Decoder.Decode(code): the token a code carries, when its signature verifies
Decodes(code) == code # "garbage"

Decode(code) ==
  CASE code = "anon" -> ZeroToken
    [] code = "pull" -> PullToken
    [] code = "blocked" -> [PullToken EXCEPT !.Block = TRUE, !.BlockMessage = "blocked by admin"]
    [] code = "blockedquiet" -> [PullToken EXCEPT !.Block = TRUE]
    [] code = "blockedanon" -> [ZeroToken EXCEPT !.Block = TRUE]
    [] code = "mirror" -> [PullToken EXCEPT !.Attribute = [Host |-> "ghcr.io", Image |-> ""]]
    [] code = "tags" -> [PullToken EXCEPT !.AllowTagsList = TRUE]
    [] OTHER -> ZeroToken

\* Authenticator.Authorization(r): an error for a missing header (ErrNoAuth) and for a
\* code that does not decode
AuthorizationErr(authData) ==
  authData = << >> \/ ~Decodes(authData[2])

Authorization(authData) ==
  IF AuthorizationErr(authData) THEN ZeroToken ELSE Decode(authData[2])

\* Authenticator.Authenticate(rw, r): the Bearer challenge
Authenticate(rw) ==
  ServeJSON([rw EXCEPT !.header = "WWW-Authenticate: Bearer"], "UNAUTHORIZED")

\* utils.ServeError(rw, r, errcode.ErrorCodeDenied.WithMessage(msg), 0)
ServeDenied(rw, msg) ==
  IF msg # ""
  THEN Write(WriteHeader(rw, ErrStatus("DENIED")), "errcode:DENIED:" \o msg)
  ELSE ServeJSON(rw, "DENIED")

\* http.NotFound
NotFound(rw) == Write(WriteHeader(rw, 404), "404 page not found")

\* utils.ResponseAPIBase: 200 with the empty JSON object
ResponseAPIBase(rw) == Write(rw, "{}")

\* utils.ResponseEmptyTagsList
ResponseEmptyTagsList(rw) == Write(rw, "tags:[]")

\* no Link header
NoLink == << >>

NewGatewayRW == [code |-> 0, body |-> "", header |-> "", link |-> NoLink]

\* The Link headers an origin sends with a tags list: none, one with a relative
\* target, one with an absolute target. A target is the origin it names ("" when
\* relative) and the segments of its path.
OriginLinks ==
  { NoLink,
    [origin |-> "", path |-> <<"v2", "image", "tags", "list">>, params |-> "ref=other"],
    [origin |-> "http://domain", path |-> <<"v2", "image", "tags", "list">>,
     params |-> "ref=other"] }

\* addPrefixToImageForPagination(oldLink, host)
addPrefixToImageForPagination(oldLink, host) ==
  [origin |-> "", path |-> <<"v2", host>> \o Tail(oldLink.path), params |-> oldLink.params]

\* A gateway that rewrites the Link header of every origin response
LinkAlwaysRewritten(status, oldLink, host) ==
  IF oldLink # NoLink THEN addPrefixToImageForPagination(oldLink, host) ELSE oldLink

\* Gateway.forward, lines 1408-1413: the Link header handed on to the client
ForwardLink(status, oldLink, host) ==
  IF status = 200 /\ oldLink # NoLink
  THEN addPrefixToImageForPagination(oldLink, host)
  ELSE oldLink

ZeroPathInfo ==
  [Host |-> "", Image |-> "", Manifests |-> "", Blobs |-> "", TagsList |-> FALSE]

\* whether a path segment is a registry host (a domain name)
IsDomain(seg) == seg \in {"docker.io", "ghcr.io", "quay.io"}

PathInfoOf(host, image, kind, ref) ==
  [Host |-> host, Image |-> image,
   Manifests |-> IF kind = "manifests" THEN ref ELSE "",
   Blobs |-> IF kind = "blobs" THEN ref ELSE "",
   TagsList |-> (kind = "tags" /\ ref = "list")]

\* parseOriginPathInfo(oriPath): /v2/{host}/{image}/{manifests|blobs|tags}/{ref}, the host
\* optional
parseOriginPathOk(oriPath) ==
  \/ /\ Len(oriPath) = 5 /\ IsDomain(oriPath[2])
     /\ oriPath[4] \in {"manifests", "blobs"} \/ (oriPath[4] = "tags" /\ oriPath[5] = "list")
  \/ /\ Len(oriPath) = 4 /\ ~IsDomain(oriPath[2])
     /\ oriPath[3] \in {"manifests", "blobs"} \/ (oriPath[3] = "tags" /\ oriPath[4] = "list")

parseOriginPathInfo(oriPath) ==
  IF ~parseOriginPathOk(oriPath) THEN ZeroPathInfo
  ELSE IF Len(oriPath) = 5
  THEN PathInfoOf(oriPath[2], oriPath[3], oriPath[4], oriPath[5])
  ELSE PathInfoOf("", oriPath[2], oriPath[3], oriPath[4])

\* A gateway that lets every Authorization header pass
AuthNeverRejects(g, r) == FALSE

\* Gateway.ServeHTTP, lines 1277-1283: the authenticator is configured and rejects the
\* Authorization header
AuthRejects(g, r) == g.authenticator /\ AuthorizationErr(r.authData)

\* Gateway.ServeHTTP, lines 1271-1283: the token the handler goes on with
TokenOf(g, r) == IF g.authenticator THEN Authorization(r.authData) ELSE ZeroToken

\* A gateway that prefers the host of the path to the host of the token
ResolveHostPathFirst(g, t, info) ==
  IF info.Host # "" THEN info.Host
  ELSE IF t.Attribute.Host # "" THEN t.Attribute.Host
  ELSE IF g.overrideDefaultRegistry # "" THEN g.overrideDefaultRegistry
  ELSE g.defaultRegistry

\* Gateway.ServeHTTP, lines 1311-1324: the upstream host
ResolveHost(g, t, info) ==
  IF t.Attribute.Host # "" THEN t.Attribute.Host
  ELSE IF info.Host # "" THEN info.Host
  ELSE IF g.overrideDefaultRegistry # "" THEN g.overrideDefaultRegistry
  ELSE g.defaultRegistry

\* Gateway.ServeHTTP, lines 1305-1350: the path info the request is dispatched with
ResolveInfo(g, t, info) ==
  [info EXCEPT !.Host = ResolveHost(g, t, info),
               !.Image = IF t.Attribute.Image # "" THEN t.Attribute.Image ELSE info.Image]

\* Gateway.ServeHTTP: the response it writes itself, or the handler it dispatches to
ServeHTTP(g, r) ==
  LET rw == NewGatewayRW
      t == TokenOf(g, r)
      info == ResolveInfo(g, t, parseOriginPathInfo(r.path))
      early(w) == [next |-> "done", rw |-> w, info |-> ZeroPathInfo, t |-> ZeroToken]
      answer(w) == [next |-> "done", rw |-> w, info |-> ZeroPathInfo, t |-> t]
      dispatch(to) == [next |-> to, rw |-> rw, info |-> info, t |-> t]
  IN
  IF ~HasPrefix(r.path, prefix) THEN early(NotFound(rw))
  ELSE IF r.method # "GET" /\ r.method # "HEAD" THEN early(ServeJSON(rw, "UNSUPPORTED"))
  ELSE IF r.path = catalog THEN early(ServeJSON(rw, "UNSUPPORTED"))
  ELSE IF AuthRejects(g, r) THEN answer(Authenticate(rw))
  ELSE IF r.path = prefix THEN answer(ResponseAPIBase(rw))
  ELSE IF g.authenticator /\ t.Scope = "" THEN answer(Authenticate(rw))
  ELSE IF g.authenticator /\ t.Block THEN answer(ServeDenied(rw, t.BlockMessage))
  ELSE IF ~parseOriginPathOk(r.path) THEN answer(ServeJSON(rw, "DENIED"))
  ELSE IF info.Host = "" THEN answer(ServeJSON(rw, "DENIED"))
  ELSE IF r.ns # "" /\ r.ns # info.Host THEN answer(ServeJSON(rw, "DENIED"))
  ELSE IF g.disableTagsList /\ info.TagsList /\ ~t.AllowTagsList
       THEN answer(ResponseEmptyTagsList(rw))
  ELSE IF info.Blobs # "" THEN dispatch("blob")
  ELSE IF info.Manifests # "" /\ g.cache THEN dispatch("manifest")
  ELSE dispatch("forward")

\* parsePath(path) of the agent: /v2/{source}/{image}/blobs/sha256:{hex}
parsePath(oriPath) ==
  Len(oriPath) = 5 /\ oriPath[4] = "blobs" /\ oriPath[5] \in {"sha256:aa11"}

\* An agent that never looks at the method
AgentMethodAllowed(r) == FALSE

\* Agent.ServeHTTP, line 286: the method is neither GET nor HEAD
AgentMethodUnsupported(r) == r.method # "GET" /\ r.method # "HEAD"

\* An agent that never looks at t.Block
AgentBlockIgnored(t) == FALSE

\* Agent.ServeHTTP, line 319
AgentBlocked(t) == t.Block

\* Agent.ServeHTTP: the response it writes itself, or the dispatch to Agent.Serve
AgentServeHTTP(a, r) ==
  LET rw == NewGatewayRW
      t == IF a.authenticator THEN Authorization(r.authData) ELSE ZeroToken
      info == PathInfoOf(r.path[2], r.path[3], "blobs", r.path[5])
      early(w) == [next |-> "done", rw |-> w, info |-> ZeroPathInfo, t |-> ZeroToken]
      answer(w) == [next |-> "done", rw |-> w, info |-> ZeroPathInfo, t |-> t]
  IN
  IF ~HasPrefix(r.path, prefix) THEN early(NotFound(rw))
  ELSE IF AgentMethodUnsupported(r) THEN early(ServeJSON(rw, "UNSUPPORTED"))
  ELSE IF r.path = prefix THEN early(ResponseAPIBase(rw))
  ELSE IF ~parsePath(r.path) THEN early(NotFound(rw))
  ELSE IF a.authenticator /\ AuthorizationErr(r.authData)
       THEN answer(ServeDenied(rw, "authorization error"))
  ELSE IF AgentBlocked(t) THEN answer(ServeDenied(rw, t.BlockMessage))
  ELSE [next |-> "agentServe", rw |-> rw, info |-> info, t |-> t]

\* The handlers a request can arrive at
Handlers == {"Gateway", "Agent"}

IdleGReq ==
  [pc |-> "idle", handler |-> "Gateway", method |-> "", path |-> << >>, authData |-> << >>,
   ns |-> "", rw |-> NewGatewayRW, info |-> ZeroPathInfo, t |-> ZeroToken, calls |-> {},
   oldLink |-> NoLink]

\* A request arrives at the gateway or at the agent
GStart ==
  /\ greq.pc = "idle"
  /\ \E h \in Handlers, m \in GMethods, p \in GPaths, a \in AuthHeaders, ns \in NsValues :
       /\ h = "Agent" => ns = ""
       /\ greq' = [IdleGReq EXCEPT !.pc = "serve", !.handler = h, !.method = m, !.path = p,
                                   !.authData = a, !.ns = ns]
  /\ UNCHANGED <<gateway, mvars, avars, ovars>>

\* Gateway.ServeHTTP, or Agent.ServeHTTP, up to its return or its dispatch
GServeHTTP ==
  /\ greq.pc = "serve"
  /\ LET out == IF greq.handler = "Gateway" THEN ServeHTTP(gateway, greq)
                ELSE AgentServeHTTP(agent, greq) IN
     greq' = [greq EXCEPT !.pc = out.next, !.rw = WriteHeader(out.rw, IF out.next = "done" THEN 200 ELSE 0),
                          !.info = out.info, !.t = out.t]
  /\ UNCHANGED <<gateway, mvars, avars, ovars>>

\* Gateway.blob: the blob is handed to the agent
GBlob ==
  /\ greq.pc = "blob"
  /\ \E code \in {200, 307, 500} :
       greq' = [greq EXCEPT !.pc = "done", !.calls = @ \cup {"agent"},
                            !.rw = WriteHeader(@, code)]
  /\ UNCHANGED <<gateway, mvars, avars, ovars>>

\* Agent.ServeHTTP, line 328: the request is handed to Agent.Serve
GAgentServe ==
  /\ greq.pc = "agentServe"
  /\ \E code \in {200, 307, 500} :
       greq' = [greq EXCEPT !.pc = "done", !.calls = @ \cup {"agent"},
                            !.rw = WriteHeader(@, code)]
  /\ UNCHANGED <<gateway, mvars, avars, ovars>>

\* Gateway.cacheManifestResponse: the manifest cache (storage, and the origin on a miss)
GManifest ==
  /\ greq.pc = "manifest"
  /\ \E miss \in BOOLEAN, code \in {200, 404, 500} :
       greq' = [greq EXCEPT !.pc = "done",
                            !.calls = @ \cup {"storage"} \cup (IF miss THEN {"origin"} ELSE {}),
                            !.rw = WriteHeader(@, code)]
  /\ UNCHANGED <<gateway, mvars, avars, ovars>>

\* Gateway.forward, lines 1370-1432
GForward ==
  /\ greq.pc = "forward"
  /\ \E err \in BOOLEAN, status \in Statuses, oldLink \in OriginLinks :
       LET rw == greq.rw
           out == [rw EXCEPT !.link = ForwardLink(status, oldLink, greq.info.Host)]
       IN
       /\ err => (status = 200 /\ oldLink = NoLink)   \* no response when the request fails
       /\ greq' = [greq EXCEPT
                  !.pc = "done", !.calls = @ \cup {"origin"},
                  !.oldLink = oldLink,
                  !.rw = IF err THEN ServeJSON(rw, "UNKNOWN")
                         ELSE IF status \in {401, 403} THEN ServeJSON(rw, "DENIED")
                         ELSE IF greq.method # "HEAD" THEN Write(WriteHeader(out, status), "origin body")
                         ELSE WriteHeader(out, status)]
  /\ UNCHANGED <<gateway, mvars, avars, ovars>>

\* The response has been sent
GFinish ==
  /\ greq.pc = "done"
  /\ greq' = IdleGReq
  /\ UNCHANGED <<gateway, mvars, avars, ovars>>

(***************************************************************************)
(* The blob agent: Agent.Serve, worker, downloadBlobWorker, cacheBlob.      *)
(***************************************************************************)
Digests == {"sha256:aa11"}
AgentImages == {"library/busybox", "mirror/busybox"}
BlobInfos == [Host : Hosts, Image : AgentImages, Blobs : Digests]

\* Blob sizes around the big cache threshold
Sizes == {BigCacheSize - 1, BigCacheSize, BigCacheSize + 1}

\* NewAgent, lines 181-183: `for i := 0; i <= c.concurrency; i++ { go c.worker(ctx) }`
Workers == 0 .. Concurrency

\* What httpClient.Do returns to cacheBlob: an error, or a response with its status,
\* what its body holds (the blob, an errcode envelope, JSON that is no envelope, text
\* that is no JSON, or a body whose read fails), the Content-Length it declares and
\* the number of bytes the origin sends
Resp(status, payload, length, sent) ==
  [err |-> "", status |-> status, payload |-> payload, length |-> length, sent |-> sent]

\* httpClient.Do failed: with a *transport.Error, or with another error
DoError(err) == [err |-> err, status |-> 0, payload |-> "", length |-> 0, sent |-> 0]

\* No response yet
NoResp == DoError("")

\* The answers of an origin that serves the blob, of the given size, or fails
Responses(size) ==
  {Resp(200, "blob", size, size), Resp(401, "invalid", 0, 0), Resp(404, "errors", 0, 0),
   Resp(503, "invalid", 0, 0), DoError("transport.Error")}

\* The statuses of an origin, of every class
OriginStatuses == {101, 304, 401, 403, 404, 429, 500, 503}

\* The bodies of an answer that is no blob
Payloads == {"errors", "json", "invalid", "unreadable"}

\* The answers of any origin: the blob may come with fewer or more bytes than the
\* Content-Length declares
AllResponses ==
  {DoError("transport.Error"), DoError("dial")}
  \cup {Resp(st, p, 0, 0) : st \in OriginStatuses, p \in Payloads}
  \cup {Resp(200, "blob", len, len + more) :
          len \in {BigCacheSize, BigCacheSize + 1}, more \in {-1, 0, 1}}

\* The response: the status, the size of the blob it announces or delivers, the error
\* of the envelope, the Content-Type, the Location, and whether the blob body was read
\* from the cache into it
NewAgentRW ==
  [code |-> 0, size |-> 0, err |-> "", type |-> "", location |-> "", body |-> FALSE]

\* token.Token, the fields Agent.Serve reads
PlainToken == [AlwaysRedirect |-> FALSE, Weight |-> 0]
Tokens == [AlwaysRedirect : BOOLEAN, Weight : {0, 3}]

\* cancelled: the request's context ended while Serve waited for its admission
IdleBlobReq == [pc |-> "idle", info |-> [Host |-> "", Image |-> "", Blobs |-> ""],
                method |-> "", t |-> PlainToken, rw |-> NewAgentRW, cancelled |-> FALSE]

\* model.MessageStatus
StatusPending == 0
StatusProcessing == 10
StatusCompleted == 20
StatusFailed == 30
StatusCleanup == 90

\* The statuses of a message
QueueStatuses ==
  {StatusPending, StatusProcessing, StatusCompleted, StatusFailed, StatusCleanup}

\* model.MessageAttr with the fields waitingQueue gives it
MessageAttr(info) == [Kind |-> "", Error |-> "", Host |-> info.Host, Image |-> info.Image]

\* client.MessageResponse{}
NoMessage ==
  [Content |-> "", Priority |-> 0, Status |-> StatusPending,
   Data |-> MessageAttr(IdleBlobReq.info)]

\* A worker at GetOrWaitWithDone: the entry it holds, the weight it popped with it, the
\* answer of the origin it is handling, the message it last saw in waitingQueue and
\* the error waitingQueue returned
IdleWorker ==
  [pc |-> "get", info |-> IdleBlobReq.info, weight |-> 0, resp |-> NoResp,
   mr |-> NoMessage, err |-> ""]

\* blobCache.Remove
Remove(bc, digest) == [d \in DOMAIN bc \ {digest} |-> bc[d]]

\* blobCache.Put / PutNoTTL: an entry with a size
PutEntry(bc, digest, size, big, ttl) ==
  [d \in DOMAIN bc \cup {digest} |->
     IF d = digest
     THEN [Error |-> "", StatusCode |-> 0, Size |-> size, BigCache |-> big, TTL |-> ttl]
     ELSE bc[d]]

Put(bc, digest, size, big) == PutEntry(bc, digest, size, big, TRUE)

PutNoTTL(bc, digest, size, big) == PutEntry(bc, digest, size, big, FALSE)

\* A blob cache that keeps no errors
PutErrorDropped(bc, digest, err, sc) == bc

\* blobCache.PutError: an entry with an error and the status code to answer with
PutError(bc, digest, err, sc) ==
  [d \in DOMAIN bc \cup {digest} |->
     IF d = digest
     THEN [Error |-> err, StatusCode |-> sc, Size |-> 0, BigCache |-> FALSE, TTL |-> TRUE]
     ELSE bc[d]]

\* cache.PutBlob that succeeded
PutBlob(st, digest, size) ==
  [d \in DOMAIN st \cup {digest} |-> IF d = digest THEN size ELSE st[d]]

\* WeightQueue.AddWeight: an item equal to one in the queue joins its entry, whose
\* channel closes at finish()
AddWeight(q, info, weight) ==
  IF info \in DOMAIN q THEN q
  ELSE [i \in DOMAIN q \cup {info} |->
          IF i = info THEN [taken |-> FALSE, weight |-> weight] ELSE q[i]]

\* finish(): the entry leaves the queue
Finish(q, info) == [i \in DOMAIN q \ {info} |-> q[i]]

\* finish() closes the channel AddWeight returned: the requests waiting on the entry
\* go on
Released(reqs, info) ==
  [c \in DOMAIN reqs |->
     IF reqs[c].pc = "wait" /\ reqs[c].info = info
     THEN [reqs[c] EXCEPT !.pc = "recheck"]
     ELSE reqs[c]]

\* utils.ServeError(rw, r, err, sc): the status is sc, or that of the error code when
\* sc is 0
ServeError(rw, err, sc) ==
  [rw EXCEPT !.code = IF sc # 0 THEN sc ELSE ErrStatus(err), !.err = err]

\* cacheBlob, lines 476-523: the error and status code for what httpClient.Do
\* returned ("" for a response whose body is to be downloaded), and whether the body
\* of the response has been closed; BLOB_UNKNOWN stands for the errors parsed from
\* the envelope
cacheBlobErr(resp) ==
  IF resp.err = "transport.Error" THEN [err |-> "DENIED", sc |-> 403, closed |-> FALSE]
  ELSE IF resp.err # "" THEN [err |-> "UNKNOWN", sc |-> 0, closed |-> FALSE]
  ELSE IF resp.status \in {401, 403} THEN [err |-> "DENIED", sc |-> 0, closed |-> TRUE]
  ELSE IF resp.status < 200 \/ (resp.status >= 300 /\ resp.status < 400)
  THEN [err |-> "UNKNOWN", sc |-> 0, closed |-> TRUE]
  ELSE IF resp.status >= 400
  THEN CASE resp.payload = "unreadable" -> [err |-> "UNKNOWN", sc |-> 0, closed |-> TRUE]
         [] resp.payload = "invalid" -> [err |-> "DENIED", sc |-> 0, closed |-> TRUE]
         [] resp.payload = "json" -> [err |-> "UNKNOWN", sc |-> 0, closed |-> TRUE]
         [] OTHER -> [err |-> "BLOB_UNKNOWN", sc |-> resp.status, closed |-> TRUE]
  ELSE [err |-> "", sc |-> 0, closed |-> FALSE]

\* A request arrives at Agent.Serve, its token one of the given ones
Arrive(c, tokens) ==
  /\ areq[c].pc = "idle"
  /\ nreq < MaxRequests
  /\ nreq' = nreq + 1
  /\ \E info \in BlobInfos, m \in Methods, t \in tokens :
       areq' = [areq EXCEPT ![c] = [IdleBlobReq EXCEPT !.pc = "serve", !.info = info,
                                                      !.method = m, !.t = t]]
  /\ UNCHANGED <<agent, origin, blobCache, cache, bigCache, queue, groupQueue, worker,
                 upstream, healthy>>
  /\ UNCHANGED <<mvars, gvars, ovars>>

AStart(c) == Arrive(c, {PlainToken})

\* A request whose token may ask for a redirect
AStartAny(c) == Arrive(c, Tokens)

\* What can go wrong while a blob is delivered: RedirectBlob fails, the request's
\* context ends while it waits for the limiter, or the read of the blob fails
Faults == {"", "redirect", "wait", "read"}

\* serveCachedBlobHead, lines 575-582: whether it answers the request
serveCachedBlobHead(q, size) == size # 0 /\ q.method = "HEAD"

\* An agent that redirects by size although blobNoRedirectSize is not set
RedirectBySizeUnset(size) == size > agent.blobNoRedirectSize

\* serveCachedBlob, line 613
RedirectBySize(size) == agent.blobNoRedirectSize > 0 /\ size > agent.blobNoRedirectSize

\* serveCachedBlob, line 621: c.blobNoRedirectLimit.Reserve().Delay() != 0, the bucket
\* holds no token now
LimitDelays == limit = 0

\* serveCachedBlobRedirect, lines 668-688, and serveBigCachedBlob, lines 584-605
Redirect(c, size, big, fault) ==
  LET q == areq[c]
      d == q.info.Blobs
  IN
  IF fault = "redirect"
  THEN /\ areq' = [areq EXCEPT ![c].pc = "done", ![c].rw = ServeError(q.rw, "UNKNOWN", 0)]
       /\ blobCache' = Remove(blobCache, d)
       /\ healthy' = FALSE
  ELSE /\ areq' = [areq EXCEPT ![c].pc = "done",
                               ![c].rw = [q.rw EXCEPT !.code = 307, !.size = size,
                                                      !.location = "signed"]]
       /\ blobCache' = IF big THEN PutNoTTL(blobCache, d, size, TRUE)
                       ELSE Put(blobCache, d, size, FALSE)
       /\ UNCHANGED healthy

\* serveCachedBlob, lines 633-665: http.ServeContent from the cache, then the entry
Stream(c, size, fault) ==
  LET q == areq[c] IN
  /\ areq' = [areq EXCEPT ![c].pc = "done",
                          ![c].rw = [q.rw EXCEPT !.code = 200, !.size = size,
                                                 !.type = "application/octet-stream",
                                                 !.body = (q.method = "GET" /\ fault # "read")]]
  /\ blobCache' = Put(blobCache, q.info.Blobs, size, FALSE)
  /\ healthy' = (healthy /\ ~(q.method = "GET" /\ fault = "read"))

\* serveCachedBlob, lines 607-666.  Reserve takes a token when the bucket holds one
\* (a reservation made on an empty bucket is a debt the model does not keep); Wait
\* takes the next one, waiting for it unless the request's context ends first.
serveCachedBlob(c, size, fault) ==
  IF areq[c].t.AlwaysRedirect \/ RedirectBySize(size)
  THEN Redirect(c, size, FALSE, fault) /\ UNCHANGED limit
  ELSE IF ~agent.hasLimit
  THEN Stream(c, size, fault) /\ UNCHANGED limit
  ELSE IF LimitDelays
  THEN Redirect(c, size, FALSE, fault) /\ UNCHANGED limit
  ELSE IF limit >= 2
  THEN Stream(c, size, fault) /\ limit' = limit - 2
  ELSE /\ limit' = 0
       /\ IF fault = "wait"
          THEN /\ areq' = [areq EXCEPT ![c].pc = "done"]
               /\ UNCHANGED <<blobCache, healthy>>
          ELSE Stream(c, size, fault)

\* Agent.Serve, lines 346-356 and the like: the delivery of a blob that is available
ServeBlob(c, size, big, fault) ==
  LET q == areq[c] IN
  IF serveCachedBlobHead(q, size)
  THEN /\ areq' = [areq EXCEPT ![c].pc = "done",
                               ![c].rw = [q.rw EXCEPT !.code = 200, !.size = size,
                                                      !.type = "application/octet-stream"]]
       /\ UNCHANGED <<blobCache, healthy, limit>>
  ELSE IF big
  THEN Redirect(c, size, TRUE, fault) /\ UNCHANGED limit
  ELSE serveCachedBlob(c, size, fault)

\* Agent.Serve, lines 339-391: the in-memory entry, then the stat of the caches
ALookup(c) ==
  LET q == areq[c]
      d == q.info.Blobs
  IN
  /\ q.pc = "serve"
  /\ \E fault \in Faults :
       IF d \in DOMAIN blobCache
       THEN IF blobCache[d].Error # ""
            THEN /\ areq' = [areq EXCEPT ![c].pc = "done",
                                         ![c].rw = ServeError(q.rw, blobCache[d].Error, 0)]
                 /\ UNCHANGED <<blobCache, healthy, limit>>
            ELSE ServeBlob(c, blobCache[d].Size, blobCache[d].BigCache, fault)
       ELSE IF d \in DOMAIN cache
       THEN IF agent.hasBigCache /\ cache[d] >= BigCacheSize
            THEN IF d \in DOMAIN bigCache
                 THEN ServeBlob(c, bigCache[d], TRUE, fault)
                 ELSE /\ areq' = [areq EXCEPT ![c].pc = "add"]
                      /\ UNCHANGED <<blobCache, healthy, limit>>
            ELSE ServeBlob(c, cache[d], FALSE, fault)
       ELSE IF agent.hasBigCache /\ d \in DOMAIN bigCache
       THEN ServeBlob(c, bigCache[d], TRUE, fault)
       ELSE /\ areq' = [areq EXCEPT ![c].pc = "add"]
            /\ UNCHANGED <<blobCache, healthy, limit>>
  /\ UNCHANGED <<agent, origin, cache, bigCache, queue, groupQueue, worker, upstream, nreq>>
  /\ UNCHANGED <<mvars, gvars, uvars, cvars, message, svars>>

\* Agent.Serve, lines 393-397: c.queue.AddWeight(*info, t.Weight)
AAddWeight(c) ==
  /\ areq[c].pc = "add"
  /\ queue' = AddWeight(queue, areq[c].info, areq[c].t.Weight)
  /\ areq' = [areq EXCEPT ![c].pc = "wait"]
  /\ UNCHANGED <<agent, origin, blobCache, cache, bigCache, groupQueue, worker, upstream,
                 healthy, nreq>>
  /\ UNCHANGED <<mvars, gvars, ovars>>

\* An agent that withdraws the entry of a requester that gives up
QueueCancelWithdraws(q, info) == Finish(q, info)

\* Agent.Serve, lines 393-395: what `case <-ctx.Done(): return` leaves of the queue
QueueAfterCancel(q, info) == q

\* Agent.Serve, lines 393-395: the request's context ends while the request waits
ACancel(c) ==
  /\ areq[c].pc = "wait"
  /\ areq' = [areq EXCEPT ![c].pc = "done", ![c].cancelled = TRUE]
  /\ queue' = QueueAfterCancel(queue, areq[c].info)
  /\ UNCHANGED <<agent, origin, blobCache, cache, bigCache, groupQueue, worker, upstream,
                 healthy, nreq>>
  /\ UNCHANGED <<mvars, gvars, ovars>>

\* Agent.Serve, lines 399-441: after the channel fired
ARecheck(c) ==
  LET q == areq[c]
      d == q.info.Blobs
  IN
  /\ q.pc = "recheck"
  /\ \E fault \in Faults :
       IF d \in DOMAIN blobCache
       THEN IF blobCache[d].Error # ""
            THEN /\ areq' = [areq EXCEPT ![c].pc = "done",
                                         ![c].rw = ServeError(q.rw, blobCache[d].Error, 0)]
                 /\ UNCHANGED <<blobCache, healthy, limit>>
            ELSE ServeBlob(c, blobCache[d].Size, blobCache[d].BigCache, fault)
       ELSE IF agent.hasBigCache /\ d \in DOMAIN bigCache
       THEN ServeBlob(c, bigCache[d], TRUE, fault)
       ELSE IF d \in DOMAIN cache
       THEN ServeBlob(c, cache[d], FALSE, fault)
       ELSE /\ areq' = [areq EXCEPT ![c].pc = "done", ![c].rw = ServeError(q.rw, "UNKNOWN", 0)]
            /\ UNCHANGED <<blobCache, healthy, limit>>
  /\ UNCHANGED <<agent, origin, cache, bigCache, queue, groupQueue, worker, upstream, nreq>>
  /\ UNCHANGED <<mvars, gvars, uvars, cvars, message, svars>>

\* The response has been sent; the client may ask again
AFinish(c) ==
  /\ areq[c].pc = "done"
  /\ areq' = [areq EXCEPT ![c] = IdleBlobReq]
  /\ UNCHANGED <<agent, origin, blobCache, cache, bigCache, queue, groupQueue, worker,
                 upstream, healthy, nreq>>
  /\ UNCHANGED <<mvars, gvars, ovars>>

\* Agent.worker, line 228: c.queue.GetOrWaitWithDone pops an entry; which one is for
\* the queue to choose
WGet(w) ==
  /\ worker[w].pc = "get"
  /\ \E info \in DOMAIN queue :
       /\ ~queue[info].taken
       /\ queue' = [queue EXCEPT ![info].taken = TRUE]
       /\ worker' = [worker EXCEPT ![w] =
                       [IdleWorker EXCEPT !.pc = IF agent.queueClient THEN "waitingQueue"
                                                ELSE "cacheBlob",
                                          !.info = info,
                                          !.weight = queue[info].weight]]
  /\ UNCHANGED <<agent, origin, blobCache, cache, bigCache, groupQueue, areq, upstream,
                 healthy, nreq>>
  /\ UNCHANGED <<mvars, gvars, ovars>>

\* A worker that records the error of cacheBlob and does not call finish()
AdmitKeepsEntry(w, resp) ==
  LET info == worker[w].info
      d == info.Blobs
      r == cacheBlobErr(resp)
  IN
  /\ worker' = [worker EXCEPT ![w] = IdleWorker]
  /\ IF r.err # ""
     THEN /\ blobCache' = PutError(blobCache, d, r.err, r.sc)
          /\ healthy' = FALSE
          /\ UNCHANGED <<groupQueue, queue, areq>>
     ELSE /\ groupQueue' = groupQueue \cup {[Info |-> info, ContentLength |-> resp.length,
                                             Sent |-> resp.sent]}
          /\ UNCHANGED <<blobCache, queue, areq, healthy>>
  /\ UNCHANGED <<agent, origin, cache, bigCache, nreq>>
  /\ UNCHANGED <<mvars, gvars, ovars>>

\* Agent.worker, lines 241-258, from the return of cacheBlob: the error is recorded
\* and the entry finished, or the download is handed to a group queue
Admit(w, resp) ==
  LET info == worker[w].info
      d == info.Blobs
      r == cacheBlobErr(resp)
  IN
  /\ worker' = [worker EXCEPT ![w] = IdleWorker]
  /\ IF r.err # ""
     THEN /\ blobCache' = PutError(blobCache, d, r.err, r.sc)
          /\ queue' = Finish(queue, info)
          /\ areq' = Released(areq, info)
          /\ healthy' = FALSE
          /\ UNCHANGED groupQueue
     ELSE /\ groupQueue' = groupQueue \cup {[Info |-> info, ContentLength |-> resp.length,
                                             Sent |-> resp.sent]}
          /\ UNCHANGED <<blobCache, queue, areq, healthy>>
  /\ UNCHANGED <<agent, origin, cache, bigCache, nreq>>
  /\ UNCHANGED <<mvars, gvars, ovars>>

\* Agent.worker, lines 241-258, with cacheBlob: the upstream GET to an origin that
\* serves the blob or fails, and what the worker does with its answer
WCacheBlob(w) ==
  /\ worker[w].pc = "cacheBlob"
  /\ upstream' = [upstream EXCEPT ![worker[w].info.Blobs] = @ + 1]
  /\ \E resp \in Responses(origin[worker[w].info.Blobs]) : Admit(w, resp)

\* cacheBlob, line 476: httpClient.Do sends the GET; any origin answers
WRequest(w) ==
  /\ worker[w].pc = "cacheBlob"
  /\ upstream' = [upstream EXCEPT ![worker[w].info.Blobs] = @ + 1]
  /\ \E resp \in AllResponses :
       worker' = [worker EXCEPT ![w].pc = "response", ![w].resp = resp]
  /\ UNCHANGED <<agent, origin, blobCache, cache, bigCache, queue, groupQueue, areq,
                 healthy, nreq>>
  /\ UNCHANGED <<mvars, gvars, ovars>>

\* cacheBlob, lines 477-563, and Agent.worker, lines 242-258: the answer is handled
WResponse(w) ==
  /\ worker[w].pc = "response"
  /\ Admit(w, worker[w].resp)
  /\ UNCHANGED upstream

\* resp.Body as net/http reads it: the bytes read and the error of the read. A body
\* that ends before Content-Length bytes fails with io.ErrUnexpectedEOF; of a body
\* that goes on after them, HTTP/1 reads Content-Length bytes and no more, HTTP/2
\* fails the stream
ReadBody(bb) ==
  IF bb.Sent < bb.ContentLength THEN {[n |-> bb.Sent, err |-> "unexpected EOF"]}
  ELSE IF bb.Sent > bb.ContentLength
  THEN {[n |-> bb.ContentLength, err |-> ""], [n |-> bb.ContentLength, err |-> "protocol error"]}
  ELSE {[n |-> bb.ContentLength, err |-> ""]}

\* downloadBlobWorker, lines 262-278, with the ContinueFunc of cacheBlob, lines 525-561
DownloadBlob(bb) ==
  LET info == bb.Info
      d == info.Blobs
      big == agent.hasBigCache /\ BigCacheSize > 0 /\ bb.ContentLength > BigCacheSize
      failed(err) == /\ blobCache' = PutError(blobCache, d, err, 0)
  IN
  /\ bb \in groupQueue
  /\ groupQueue' = groupQueue \ {bb}
  /\ queue' = Finish(queue, info)
  /\ areq' = Released(areq, info)
  /\ \E putErr \in BOOLEAN, body \in ReadBody(bb) :
       IF body.err # ""
       THEN /\ failed(body.err)
            /\ healthy' = FALSE
            /\ UNCHANGED <<cache, bigCache>>
       ELSE IF putErr
       THEN /\ failed("put failed")
            /\ healthy' = FALSE
            /\ UNCHANGED <<cache, bigCache>>
       ELSE IF big
       THEN /\ bigCache' = PutBlob(bigCache, d, body.n)
            /\ UNCHANGED <<cache, healthy>>
            /\ IF d \notin DOMAIN cache THEN failed("stat failed")
               ELSE IF body.n # cache[d] THEN failed("size mismatch")
               ELSE blobCache' = PutNoTTL(blobCache, d, body.n, TRUE)
       ELSE /\ cache' = PutBlob(cache, d, body.n)
            /\ blobCache' = Put(blobCache, d, body.n, FALSE)
            /\ UNCHANGED <<bigCache, healthy>>
  /\ UNCHANGED <<agent, origin, worker, upstream, nreq>>
  /\ UNCHANGED <<mvars, gvars, ovars>>

\* MessageClient.Create, idempotent on content: the message of the content when the
\* service has one, a new pending message otherwise
Create(msgs, content, priority, attr) ==
  IF content \in DOMAIN msgs THEN msgs
  ELSE [k \in DOMAIN msgs \cup {content} |->
          IF k = content
          THEN [Content |-> content, Priority |-> priority, Status |-> StatusPending,
                Data |-> attr]
          ELSE msgs[k]]

\* A waitingQueue that takes a failed message for a completed one
waitingQueueErrFailedPasses(mr) ==
  IF mr.Status \in {StatusCompleted, StatusFailed} THEN "" ELSE "unexpected status"

\* waitingQueue, lines 732-739: the error returned for the status last seen
waitingQueueErr(mr) ==
  IF mr.Status = StatusCompleted THEN ""
  ELSE IF mr.Status = StatusFailed THEN "Queue Error"
  ELSE "unexpected status"

\* A worker that gives the entry up when waitingQueue returns an error
AfterQueueGivesUp(w, err) ==
  /\ worker' = [worker EXCEPT ![w] = IdleWorker]
  /\ queue' = Finish(queue, worker[w].info)
  /\ areq' = Released(areq, worker[w].info)

\* Agent.worker, lines 234-240, from the return of waitingQueue: without an error the
\* entry is finished, with one the worker logs it and goes on to cacheBlob
AfterQueue(w, err) ==
  IF err = ""
  THEN /\ worker' = [worker EXCEPT ![w] = IdleWorker]
       /\ queue' = Finish(queue, worker[w].info)
       /\ areq' = Released(areq, worker[w].info)
  ELSE /\ worker' = [worker EXCEPT ![w].pc = "cacheBlob", ![w].err = err,
                                   ![w].mr = NoMessage]
       /\ UNCHANGED <<queue, areq>>

\* waitingQueue, lines 690-708 and 732-739: the message is created, and watched when
\* it is pending or processing; Create and Watch may fail
WCreate(w) ==
  LET info == worker[w].info
      d == info.Blobs
      created == Create(message, d, worker[w].weight + 1, MessageAttr(info))
  IN
  /\ worker[w].pc = "waitingQueue"
  /\ \E fault \in {"", "create", "watch"} :
       IF fault = "create"
       THEN /\ AfterQueue(w, "failed to create queue")
            /\ UNCHANGED message
       ELSE /\ message' = created
            /\ IF created[d].Status \in {StatusPending, StatusProcessing}
               THEN IF fault = "watch"
                    THEN AfterQueue(w, "failed to watch message")
                    ELSE /\ worker' = [worker EXCEPT ![w].pc = "watch",
                                                     ![w].mr = created[d]]
                         /\ UNCHANGED <<queue, areq>>
               ELSE AfterQueue(w, waitingQueueErr(created[d]))
  /\ UNCHANGED <<agent, origin, blobCache, cache, bigCache, groupQueue, upstream,
                 healthy, nreq, limit>>
  /\ UNCHANGED <<mvars, gvars, uvars, cvars, svars>>

\* waitingQueue, lines 709-730: the watch delivers the message as it is now, or
\* closes; closed on a pending or processing message it is opened again after 1s,
\* which may fail. The context of the worker is cancelled only when the agent is
\* shut down
WWatch(w) ==
  LET mr == worker[w].mr IN
  /\ worker[w].pc = "watch"
  /\ \E ev \in {"message", "closed", "closed, Watch fails"} :
       IF ev = "message"
       THEN /\ worker' = [worker EXCEPT ![w].mr = message[mr.Content]]
            /\ UNCHANGED <<queue, areq>>
       ELSE IF mr.Status \notin {StatusPending, StatusProcessing}
       THEN AfterQueue(w, waitingQueueErr(mr))
       ELSE IF ev = "closed"
       THEN UNCHANGED <<worker, queue, areq>>
       ELSE AfterQueue(w, "failed to re-watch message")
  /\ UNCHANGED <<agent, origin, blobCache, cache, bigCache, groupQueue, upstream,
                 healthy, nreq>>
  /\ UNCHANGED <<mvars, gvars, ovars>>

\* The queue service: a runner takes the message of a content, and completes it or
\* fails; the service cleans up a message that has ended. The runner writes the blob
\* to its storage, which is or is not the storage this agent reads
QAdvance(d) ==
  /\ d \in DOMAIN message
  /\ \/ /\ message[d].Status = StatusPending
        /\ message' = [message EXCEPT ![d].Status = StatusProcessing]
        /\ UNCHANGED cache
     \/ /\ message[d].Status = StatusProcessing
        /\ message' = [message EXCEPT ![d].Status = StatusCompleted]
        /\ cache' \in {cache, PutBlob(cache, d, origin[d])}
     \/ /\ message[d].Status = StatusProcessing
        /\ message' = [message EXCEPT ![d].Status = StatusFailed,
                                      ![d].Data.Error = "sync failed"]
        /\ UNCHANGED cache
     \/ /\ message[d].Status \in {StatusCompleted, StatusFailed}
        /\ message' = [message EXCEPT ![d].Status = StatusCleanup]
        /\ UNCHANGED cache
  /\ UNCHANGED <<agent, origin, blobCache, bigCache, queue, groupQueue, worker, areq,
                 upstream, healthy, nreq, limit>>
  /\ UNCHANGED <<mvars, gvars, uvars, cvars, svars>>

\* rate.Limiter: the bucket of blobNoRedirectLimit gains a token as time passes
ARefill ==
  /\ agent.hasLimit
  /\ limit < Burst
  /\ limit' = limit + 1
  /\ UNCHANGED <<avars, message>>
  /\ UNCHANGED <<mvars, gvars, uvars, cvars, svars>>

\* blobCache: an entry put with a TTL expires
AExpire(d) ==
  /\ d \in DOMAIN blobCache
  /\ blobCache[d].TTL
  /\ blobCache' = Remove(blobCache, d)
  /\ UNCHANGED <<agent, origin, cache, bigCache, queue, groupQueue, worker, areq,
                 upstream, healthy, nreq>>
  /\ UNCHANGED <<mvars, gvars, ovars>>

(***************************************************************************)
(* The policy resolver: AuthManager.getRegistry, getToken, getHostAndImage *)
(* and GetTokenWithUser.  Time is in seconds.  A repository name is the     *)
(* tuple of its segments; a nil userinfo is << >>, any other is             *)
(* <<username, password>>.                                                 *)
(***************************************************************************)
\* NewAuthManager: cacheTTL is 10 * time.Second
cacheTTL == 10

\* registry.Data.TTLSecond: unset, below cacheTTL, above cacheTTL
TtlSeconds == {0, 6, 14}

Services == {"cr.example.com"}
IPs == {"10.0.0.1", "192.0.2.9"}
Userinfos == {<< >>, <<"user", "pwd">>}
Repos ==
  { << >>, <<"ghcr.io">>, <<"library", "busybox">>, <<"ghcr.io", "app">>,
    <<"docker.io", "library", "busybox">> }

\* model.TokenAttribute, the fields GetTokenWithUser decides on
PlainData == [NoAllowlist |-> FALSE, Block |-> FALSE, BlockMessage |-> "", Weight |-> 0]
AnonymousData == [PlainData EXCEPT !.Weight = 1]
SpecialData == [PlainData EXCEPT !.Weight = 5]

\* model.Token as TokenService.GetByAccount returns it
TokenRecords ==
  { [UserID |-> 7, TokenID |-> 11, Data |-> [PlainData EXCEPT !.Weight = 9]],
    [UserID |-> 7, TokenID |-> 12, Data |-> [PlainData EXCEPT !.NoAllowlist = TRUE]],
    [UserID |-> 7, TokenID |-> 13,
     Data |-> [PlainData EXCEPT !.Block = TRUE, !.BlockMessage = "suspended"]] }

ZeroModelToken == [UserID |-> 0, TokenID |-> 0, Data |-> PlainData]

\* the allowlist of the registry, each entry host + "/" + image
Allowlist == {<<"docker.io", "library", "busybox">>}

\* model.Registry as RegistryService.GetByDomain returns it
RegistryRecords ==
  { [RegistryID |-> 3, UserID |-> 7, Data |-> d] :
      d \in [Source : {"", "docker.io"}, AllowPrefix : BOOLEAN, AllowAnonymous : BOOLEAN,
             Anonymous : {AnonymousData},
             SpecialIPs : {[ip \in {} |-> SpecialData], [ip \in {"10.0.0.1"} |-> SpecialData]},
             EnableAllowlist : BOOLEAN, Allowlist : {Allowlist},
             AllowlisBlockMessage : {""}, TTLSecond : TtlSeconds] }

\* the registries that differ in their policy, and those that differ in their TTL
PolicyRegistries == {r \in RegistryRecords : r.Data.TTLSecond = 0}
TtlRegistries ==
  {r \in RegistryRecords :
     /\ r.Data.Source = "docker.io" /\ r.Data.AllowPrefix /\ r.Data.AllowAnonymous
     /\ r.Data.SpecialIPs = << >> /\ ~r.Data.EnableAllowlist}

ZeroRegistry ==
  [RegistryID |-> 0, UserID |-> 0,
   Data |-> [Source |-> "", AllowPrefix |-> FALSE, AllowAnonymous |-> FALSE,
             Anonymous |-> PlainData, SpecialIPs |-> [ip \in {} |-> SpecialData],
             EnableAllowlist |-> FALSE, Allowlist |-> {}, AllowlisBlockMessage |-> "",
             TTLSecond |-> 0]]

\* registryCache{}: ImagesMatcher is << >> when nil, else <<the allowlist>>
ZeroRegistryCache == [Registry |-> ZeroRegistry, ImagesMatcher |-> << >>]

\* token.Attribute{}
ZeroAttribute ==
  [UserID |-> 0, TokenID |-> 0, RegistryID |-> 0, Weight |-> 0, NoAllowlist |-> FALSE,
   Block |-> FALSE, BlockMessage |-> "", Host |-> "", Image |-> << >>]

\* what the backing services answer: an error, or the record
RegErrors == {"registry not found", "database unavailable"}
TokErrors == {"token not found"}

\* imc.Cache.Evict(nil): the entries that have not expired
Evict(c, time) == [k \in {x \in DOMAIN c : c[x].expires > time} |-> c[k]]

\* imc.Cache.SetWithTTL; loaded remembers when the entry was put
SetWithTTL(c, key, err, attr, ttl, time) ==
  [k \in DOMAIN c \cup {key} |->
     IF k = key THEN [err |-> err, attr |-> attr, loaded |-> time, expires |-> time + ttl]
     ELSE c[k]]

\* An AuthManager that does not keep errors
ErrorTTLZero(r) == 0

\* getRegistry line 126, getToken line 187: the TTL an error is cached with
ErrorTTL(r) == cacheTTL

\* getRegistry lines 130-133, getToken lines 191-194: the TTL a record is cached with
RecordTTL(registry) ==
  IF registry.Data.TTLSecond > 0 THEN registry.Data.TTLSecond ELSE cacheTTL

\* getRegistry(ctx, t); svcErr and record are what RegistryService.GetByDomain would answer
getRegistry(c, time, t, svcErr, record) ==
  LET live == Evict(c, time)
      up == t.Service
      rc == [Registry |-> record,
             ImagesMatcher |-> IF record.Data.EnableAllowlist THEN <<record.Data.Allowlist>>
                               ELSE << >>]
  IN
  IF up \in DOMAIN live
  THEN [cache |-> live, attr |-> live[up].attr, err |-> live[up].err, called |-> FALSE]
  ELSE IF svcErr # ""
  THEN [cache |-> SetWithTTL(live, up, svcErr, ZeroRegistryCache, ErrorTTL(record), time),
        attr |-> ZeroRegistryCache, err |-> svcErr, called |-> TRUE]
  ELSE [cache |-> SetWithTTL(live, up, "", rc, RecordTTL(record), time),
        attr |-> rc, err |-> "", called |-> TRUE]

\* A resolver that asks allow_anonymous before it looks at special_ips
anonymousFirst(t, registry) ==
  IF ~registry.Registry.Data.AllowAnonymous
  THEN [tok |-> ZeroModelToken, err |-> "anonymous access is not allowed"]
  ELSE IF t.IP \in DOMAIN registry.Registry.Data.SpecialIPs
  THEN [tok |-> [UserID |-> registry.Registry.UserID, TokenID |-> 0,
                 Data |-> registry.Registry.Data.SpecialIPs[t.IP]], err |-> ""]
  ELSE [tok |-> [UserID |-> registry.Registry.UserID, TokenID |-> 0,
                 Data |-> registry.Registry.Data.Anonymous], err |-> ""]

\* getToken, lines 148-167: userinfo == nil
anonymousToken(t, registry) ==
  IF t.IP \in DOMAIN registry.Registry.Data.SpecialIPs
  THEN [tok |-> [UserID |-> registry.Registry.UserID, TokenID |-> 0,
                 Data |-> registry.Registry.Data.SpecialIPs[t.IP]], err |-> ""]
  ELSE IF ~registry.Registry.Data.AllowAnonymous
  THEN [tok |-> ZeroModelToken, err |-> "anonymous access is not allowed"]
  ELSE [tok |-> [UserID |-> registry.Registry.UserID, TokenID |-> 0,
                 Data |-> registry.Registry.Data.Anonymous], err |-> ""]

\* userKey
UserKey(registry, userinfo) == <<registry.Registry.UserID, userinfo[1], userinfo[2]>>

\* getToken(ctx, userinfo, t, registry); svcErr and record are what
\* TokenService.GetByAccount would answer
getToken(c, time, userinfo, t, registry, svcErr, record) ==
  IF userinfo = << >>
  THEN LET a == anonymousToken(t, registry) IN
       [cache |-> c, attr |-> a.tok, err |-> a.err, called |-> FALSE]
  ELSE LET up == UserKey(registry, userinfo)
           live == Evict(c, time)
       IN
       IF up \in DOMAIN live
       THEN [cache |-> live, attr |-> live[up].attr, err |-> live[up].err, called |-> FALSE]
       ELSE IF svcErr # ""
       THEN [cache |-> SetWithTTL(live, up, svcErr, ZeroModelToken,
                                  ErrorTTL(registry.Registry), time),
             attr |-> ZeroModelToken, err |-> svcErr, called |-> TRUE]
       ELSE [cache |-> SetWithTTL(live, up, "", record, RecordTTL(registry.Registry), time),
             attr |-> record, err |-> "", called |-> TRUE]

\* format.IsDomainName(seg) && strings.Contains(seg, ".")
IsDotDomain(seg) == seg \in {"ghcr.io", "docker.io"}

\* getHostAndImage(repo, allowPrefix, source)
getHostAndImage(repo, allowPrefix, source) ==
  IF Len(repo) > 1 /\ IsDotDomain(repo[1])
  THEN IF allowPrefix
       THEN [host |-> repo[1], image |-> Tail(repo), err |-> ""]
       ELSE [host |-> "", image |-> << >>, err |-> "invalid repository"]
  ELSE IF source # ""
  THEN [host |-> source, image |-> repo, err |-> ""]
  ELSE [host |-> "", image |-> << >>, err |-> "invalid repository"]

\* attr.Host + "/" + attr.Image
HostImage(host, image) == <<host>> \o image

\* hostmatcher.Matcher.Match
Match(matcher, name) == name \in matcher[1]

\* GetTokenWithUser, lines 224-272: the attribute bundle of a token record
AttributeOf(tok, registry, t) ==
  LET attr0 == [UserID |-> tok.UserID, TokenID |-> tok.TokenID,
                RegistryID |-> registry.Registry.RegistryID, Weight |-> tok.Data.Weight,
                NoAllowlist |-> tok.Data.NoAllowlist, Block |-> tok.Data.Block,
                BlockMessage |-> tok.Data.BlockMessage, Host |-> "", Image |-> << >>]
      hi == getHostAndImage(t.Image, registry.Registry.Data.AllowPrefix,
                            registry.Registry.Data.Source)
      attr1 == IF t.Image = << >> THEN attr0
               ELSE IF hi.err # ""
               THEN [attr0 EXCEPT !.Block = TRUE, !.BlockMessage = hi.err]
               ELSE [attr0 EXCEPT !.Host = hi.host, !.Image = hi.image]
  IN
  IF attr0.Block THEN attr0
  ELSE IF /\ ~attr1.Block /\ ~attr1.NoAllowlist
          /\ registry.ImagesMatcher # << >>
          /\ attr1.Host # "" /\ attr1.Image # << >>
          /\ ~Match(registry.ImagesMatcher, HostImage(attr1.Host, attr1.Image))
  THEN [attr1 EXCEPT !.Block = TRUE,
                     !.BlockMessage =
                        IF registry.Registry.Data.AllowlisBlockMessage # ""
                        THEN registry.Registry.Data.AllowlisBlockMessage
                        ELSE "image is not allowed"]
  ELSE attr1

\* No resolver call has been made yet
NoCall ==
  [n |-> 0, t |-> [Service |-> "", IP |-> "", Image |-> << >>], userinfo |-> << >>,
   regCalled |-> FALSE, regErr |-> "", tokCalled |-> FALSE, tokErr |-> "",
   tok |-> ZeroModelToken, attr |-> ZeroAttribute, err |-> ""]

\* GetTokenWithUser(ctx, userinfo, t), for a token and answers of the two services
\* drawn from the given sets
GetTokenWithUser(ips, userinfos, repos, regErrs, tokErrs, records) ==
  /\ \E svc \in Services, ip \in ips, userinfo \in userinfos, image \in repos,
        regErr \in regErrs, tokErr \in tokErrs, record \in records :
       LET t == [Service |-> svc, IP |-> ip, Image |-> image]
           reg == getRegistry(registryCache, authNow, t, regErr, registryRecord)
           tk == getToken(tokenCache, authNow, userinfo, t, reg.attr, tokErr, record)
           got == reg.err = ""
           ok == got /\ tk.err = ""
       IN
       /\ registryCache' = reg.cache
       /\ tokenCache' = IF got THEN tk.cache ELSE tokenCache
       /\ ucall' = [n |-> IF ucall.n = 1 THEN 2 ELSE 1, t |-> t, userinfo |-> userinfo,
                    regCalled |-> reg.called, regErr |-> reg.err,
                    tokCalled |-> got /\ tk.called,
                    tokErr |-> IF got THEN tk.err ELSE "",
                    tok |-> IF ok THEN tk.attr ELSE ZeroModelToken,
                    attr |-> IF ok THEN AttributeOf(tk.attr, reg.attr, t) ELSE ZeroAttribute,
                    err |-> IF ~got THEN reg.err ELSE tk.err]
  /\ UNCHANGED <<registryRecord, authNow>>
  /\ UNCHANGED <<mvars, gvars, avars, cvars, qvars, svars>>

\* A call while both services answer
UResolve == GetTokenWithUser(IPs, Userinfos, Repos, {""}, {""}, TokenRecords)

\* A call for one client while the services may fail
ULookup ==
  GetTokenWithUser({"10.0.0.1"}, Userinfos, {<< >>}, RegErrors \cup {""}, TokErrors \cup {""},
                   {r \in TokenRecords : r.TokenID = 11})

\* Time passes
UTick ==
  /\ authNow + TickStep <= MaxAuthTime
  /\ authNow' = authNow + TickStep
  /\ UNCHANGED <<registryRecord, registryCache, tokenCache, ucall>>
  /\ UNCHANGED <<mvars, gvars, avars, cvars, qvars, svars>>

(***************************************************************************)
(* The token codec: Encoder.Encode and Decoder.Decode.  A JSON object is    *)
(* the function from the keys it has to their values; a payload is          *)
(* <<"json", object>> or, when it is no JSON at all, <<"garbage">>.          *)
(***************************************************************************)
\* token.Attribute, the fields the model draws values for
CodecAttributes ==
  [UserID : {0, 7}, Image : {"", "mirror/busybox"}, Block : BOOLEAN,
   BlockMessage : {"", "suspended"}]

\* token.Token; ExpiresAt is an instant in seconds, 0 the zero time.Time
CodecTokens ==
  [ExpiresAt : {0, 1800}, Scope : {"", "repository:library/busybox:pull"},
   Image : {"", "library/busybox"}, Attribute : CodecAttributes]

ZeroCodecToken ==
  [ExpiresAt |-> 0, Scope |-> "", Image |-> "",
   Attribute |-> [UserID |-> 0, Image |-> "", Block |-> FALSE, BlockMessage |-> ""]]

EmptyObject == [k \in {} |-> ""]

\* a field tagged omitempty: left out when it has its zero value
OmitEmpty(key, value, zero) == IF value = zero THEN EmptyObject ELSE key :> value

\* time.Time.MarshalJSON: the instant as an RFC 3339 string
FormatTime(instant) == <<"RFC3339", instant>>

\* time.Time.UnmarshalJSON
ParseTime(text) == text[2]

\* json.Marshal of the Attribute struct: omitempty on every field
MarshalAttribute(a) ==
  OmitEmpty("user_id", a.UserID, 0) @@ OmitEmpty("image", a.Image, "")
    @@ OmitEmpty("block", a.Block, FALSE) @@ OmitEmpty("block_message", a.BlockMessage, "")

\* json.Marshal(t): omitempty has no effect on the two struct-typed fields
Marshal(t) ==
  <<"json",
    ("expires_at" :> FormatTime(t.ExpiresAt))
      @@ OmitEmpty("scope", t.Scope, "") @@ OmitEmpty("image", t.Image, "")
      @@ ("attribute" :> MarshalAttribute(t.Attribute))>>

\* the value of a key, the field staying at its zero value when the key is absent
Field(o, key, zero) == IF key \in DOMAIN o THEN o[key] ELSE zero

UnmarshalAttribute(o) ==
  [UserID |-> Field(o, "user_id", 0), Image |-> Field(o, "image", ""),
   Block |-> Field(o, "block", FALSE), BlockMessage |-> Field(o, "block_message", "")]

\* A decoder that looks for the attribute fields at the top level of the object
UnmarshalFlat(o) ==
  [ExpiresAt |-> IF "expires_at" \in DOMAIN o THEN ParseTime(o["expires_at"]) ELSE 0,
   Scope |-> Field(o, "scope", ""), Image |-> Field(o, "image", ""),
   Attribute |-> [UserID |-> Field(o, "user_id", 0), Image |-> Field(o, "image", ""),
                  Block |-> Field(o, "block", FALSE),
                  BlockMessage |-> Field(o, "block_message", "")]]

\* json.Unmarshal(data, &t) of an object, t starting as the zero Token
Unmarshal(o) ==
  [ExpiresAt |-> IF "expires_at" \in DOMAIN o THEN ParseTime(o["expires_at"]) ELSE 0,
   Scope |-> Field(o, "scope", ""), Image |-> Field(o, "image", ""),
   Attribute |-> UnmarshalAttribute(Field(o, "attribute", EmptyObject))]

\* whether the payload is valid JSON
ValidJSON(data) == data[1] = "json"

\* signing.Signer.Sign(data): the payload with a signature over it
Sign(data) == [data |-> data, sig |-> <<"signed", data>>]

\* signing.Verifier.Verify(code): the signature is one over the payload
Verifies(code) == code.sig = <<"signed", code.data>>

\* Encoder.Encode(t)
Encode(t) == Sign(Marshal(t))

\* Decoder.Decode(code)
DecodeCode(code) ==
  IF ~Verifies(code) THEN [t |-> ZeroCodecToken, err |-> "signature does not verify"]
  ELSE IF ~ValidJSON(code.data) THEN [t |-> ZeroCodecToken, err |-> "invalid JSON"]
  ELSE [t |-> Unmarshal(code.data[2]), err |-> ""]

IdleCodec ==
  [pc |-> "idle", t |-> ZeroCodecToken, code |-> Sign(<<"garbage">>), genuine |-> FALSE,
   out |-> ZeroCodecToken, err |-> ""]

\* Encoder.Encode of a token
CEncode ==
  /\ codec.pc = "idle"
  /\ \E t \in CodecTokens :
       codec' = [IdleCodec EXCEPT !.pc = "encoded", !.t = t, !.code = Encode(t),
                                  !.genuine = TRUE]
  /\ UNCHANGED <<mvars, gvars, avars, uvars, qvars, svars>>

\* The string is altered on its way: its signature replaced, or its payload replaced
\* by that of another token
CAlter ==
  /\ codec.pc = "encoded" /\ codec.genuine
  /\ \/ codec' = [codec EXCEPT !.code.sig = <<"forged">>, !.genuine = FALSE]
     \/ \E t \in CodecTokens :
          /\ Marshal(t) # codec.code.data
          /\ codec' = [codec EXCEPT !.code.data = Marshal(t), !.genuine = FALSE]
  /\ UNCHANGED <<mvars, gvars, avars, uvars, qvars, svars>>

\* A string that carries a good signature over something that is no JSON
CGarbage ==
  /\ codec.pc = "idle"
  /\ codec' = [IdleCodec EXCEPT !.pc = "encoded", !.code = Sign(<<"garbage">>)]
  /\ UNCHANGED <<mvars, gvars, avars, uvars, qvars, svars>>

\* Decoder.Decode of the string
CDecode ==
  /\ codec.pc = "encoded"
  /\ LET d == DecodeCode(codec.code) IN
     codec' = [codec EXCEPT !.pc = "decoded", !.out = d.t, !.err = d.err]
  /\ UNCHANGED <<mvars, gvars, avars, uvars, qvars, svars>>

\* The codec is used again
CReset ==
  /\ codec.pc = "decoded"
  /\ codec' = IdleCodec
  /\ UNCHANGED <<mvars, gvars, avars, uvars, qvars, svars>>

(***************************************************************************)
(* NewAgent: the group queues and the download workers it starts.  A queue  *)
(* is known by the number of the worker started on it; 0 is the nil entry.  *)
(***************************************************************************)
\* make([]*queue.WeightQueue[*downloadBlob], 4)
GroupQueues == 4

\* No agent is being made
IdlePool ==
  [pc |-> "idle", concurrency |-> 0, i |-> 0, groupQueue |-> [g \in 0 .. GroupQueues - 1 |-> 0],
   drains |-> << >>, waiting |-> {}]

\* NewAgent, lines 163-183: the agent with its options applied, before the download
\* pools are made
NewPool(concurrency) == [IdlePool EXCEPT !.pc = "groups", !.concurrency = concurrency]

\* The body of the three loops: a new queue is put into c.groupQueue[g] and a
\* download worker is started on it
StartWorker(pl, g) ==
  [pl EXCEPT !.groupQueue[g] = Len(pl.drains) + 1,
             !.drains = Append(pl.drains, Len(pl.drains) + 1),
             !.i = pl.i + 1]

\* NewAgent, lines 185-189: `for i := range c.groupQueue`
PGroups ==
  /\ pool.pc = "groups"
  /\ LET next == StartWorker(pool, pool.i) IN
     pool' = IF next.i < GroupQueues THEN next
             ELSE [next EXCEPT !.pc = "small", !.i = 0]
  /\ UNCHANGED put
  /\ UNCHANGED <<mvars, gvars, avars, uvars, cvars, qvars>>

\* NewAgent, lines 191-195: `for i := 0; i <= c.concurrency*8/10; i++`
PSmall ==
  /\ pool.pc = "small"
  /\ LET next == StartWorker(pool, 0) IN
     pool' = IF next.i <= (pool.concurrency * 8) \div 10 THEN next
             ELSE [next EXCEPT !.pc = "next", !.i = 0]
  /\ UNCHANGED put
  /\ UNCHANGED <<mvars, gvars, avars, uvars, cvars, qvars>>

\* NewAgent, lines 197-203: `for i := 0; i <= c.concurrency*1/10; i++`, and the return
PNext1 ==
  /\ pool.pc = "next"
  /\ LET next == StartWorker(pool, 1) IN
     pool' = IF next.i <= (pool.concurrency * 1) \div 10 THEN next
             ELSE [next EXCEPT !.pc = "done", !.i = 0]
  /\ UNCHANGED put
  /\ UNCHANGED <<mvars, gvars, avars, uvars, cvars, qvars>>

\* Agent.worker, lines 249-258: a download is handed to c.groupQueue[group]; requests
\* are served once NewAgent has returned
PAddWeight(g) ==
  /\ pool.pc = "done"
  /\ pool.groupQueue[g] \notin pool.waiting
  /\ pool' = [pool EXCEPT !.waiting = @ \cup {pool.groupQueue[g]}]
  /\ UNCHANGED put
  /\ UNCHANGED <<mvars, gvars, avars, uvars, cvars, qvars>>

\* downloadBlobWorker, lines 262-277: download worker k takes the download of its queue
PDownload(k) ==
  /\ k \in DOMAIN pool.drains
  /\ pool.drains[k] \in pool.waiting
  /\ pool' = [pool EXCEPT !.waiting = @ \ {pool.drains[k]}]
  /\ UNCHANGED put
  /\ UNCHANGED <<mvars, gvars, avars, uvars, cvars, qvars>>

(***************************************************************************)
(* Cache.put, Cache.Put and Cache.PutWithHash.  The storage driver is       *)
(* known by its contract: what a writer is given becomes the object of the  *)
(* key at Commit, and Cancel discards it.                                   *)
(***************************************************************************)
\* No call of put
IdlePut ==
  [pc |-> "idle", check |-> FALSE, cacheSize |-> 0, n |-> 0, hash |-> "", writer |-> "",
   before |-> "", object |-> "", ret |-> [n |-> 0, err |-> ""]]

\* Cache.Put (no checkFunc) or Cache.PutWithHash (with it) is called for a key that
\* has an object or none
NewPut(check, cacheSize, object) ==
  [IdlePut EXCEPT !.pc = "Writer", !.check = check, !.cacheSize = cacheSize,
                  !.before = object, !.object = object]

\* A checkFunc that accepts what was copied
checkFuncAccepts(p) == ""

\* PutWithHash, lines 147-156: the checkFunc, for a call whose cacheHash is the hash
\* "right"
checkFunc(p) ==
  IF p.cacheSize > 0 /\ p.n # p.cacheSize THEN "expected bytes"
  ELSE IF p.hash # "right" THEN "expected hash"
  ELSE ""

\* put returns
Return(p, n, err) == [p EXCEPT !.pc = "done", !.ret = [n |-> n, err |-> err]]

\* put, lines 108-111: c.storageDriver.Writer(ctx, cachePath, false)
PutWriter ==
  /\ put.pc = "Writer"
  /\ \E err \in BOOLEAN :
       put' = IF err THEN Return(put, 0, "writer")
              ELSE [put EXCEPT !.pc = "Copy", !.writer = "open"]
  /\ UNCHANGED pool
  /\ UNCHANGED <<mvars, gvars, avars, uvars, cvars, qvars>>

\* put, lines 116-120: io.CopyBuffer(fw, r, buf); the reader gives some bytes, which
\* hash to cacheHash or not, or fails
PutCopy ==
  /\ put.pc = "Copy"
  /\ \E n \in 0 .. MaxBytes, hash \in {"right", "wrong"}, err \in BOOLEAN :
       put' = IF err THEN Return([put EXCEPT !.writer = "cancelled"], 0, "copy")
              ELSE [put EXCEPT !.pc = "Check", !.n = n, !.hash = hash]
  /\ UNCHANGED pool
  /\ UNCHANGED <<mvars, gvars, avars, uvars, cvars, qvars>>

\* put, lines 122-128: checkFunc, when there is one
PutCheck ==
  /\ put.pc = "Check"
  /\ LET err == IF put.check THEN checkFunc(put) ELSE "" IN
     put' = IF err # "" THEN Return([put EXCEPT !.writer = "cancelled"], 0, err)
            ELSE [put EXCEPT !.pc = "Commit"]
  /\ UNCHANGED pool
  /\ UNCHANGED <<mvars, gvars, avars, uvars, cvars, qvars>>

\* put, lines 130-134: fw.Commit()
PutCommit ==
  /\ put.pc = "Commit"
  /\ \E err \in BOOLEAN :
       put' = IF err THEN Return(put, 0, "commit")
              ELSE Return([put EXCEPT !.writer = "committed", !.object = "new"], put.n, "")
  /\ UNCHANGED pool
  /\ UNCHANGED <<mvars, gvars, avars, uvars, cvars, qvars>>

(***************************************************************************)
(* The specifications: one per subsystem, the others at rest.               *)
(***************************************************************************)
GatewayOptions ==
  [authenticator : BOOLEAN, disableTagsList : BOOLEAN, cache : BOOLEAN,
   defaultRegistry : Registries, overrideDefaultRegistry : Overrides]

GatewayAtRest ==
  /\ gateway = [authenticator |-> FALSE, disableTagsList |-> FALSE, cache |-> FALSE,
                defaultRegistry |-> "", overrideDefaultRegistry |-> ""]
  /\ greq = IdleGReq

\* The options NewAgent was given: WithBigCache, WithAuthenticator,
\* WithBlobNoRedirectSize, WithBlobNoRedirectMaxSizePerSecond, WithQueueClient
AgentOptions ==
  [hasBigCache : BOOLEAN, authenticator : BOOLEAN, blobNoRedirectSize : {0, NoRedirectSize},
   hasLimit : BOOLEAN, queueClient : BOOLEAN]

\* An agent that always streams and has no work queue
PlainAgents ==
  {o \in AgentOptions : o.blobNoRedirectSize = 0 /\ ~o.hasLimit /\ ~o.queueClient}

AgentIdle ==
  /\ origin = [d \in Digests |-> BigCacheSize]
  /\ blobCache = << >>
  /\ cache = << >>
  /\ bigCache = << >>
  /\ queue = << >>
  /\ groupQueue = {}
  /\ worker = [w \in Workers |-> IdleWorker]
  /\ areq = [c \in Clients |-> IdleBlobReq]
  /\ upstream = [d \in Digests |-> 0]
  /\ healthy = TRUE
  /\ nreq = 0
  /\ limit = Burst
  /\ message = << >>

AgentAtRest ==
  /\ agent = [hasBigCache |-> FALSE, authenticator |-> FALSE, blobNoRedirectSize |-> 0,
              hasLimit |-> FALSE, queueClient |-> FALSE]
  /\ AgentIdle

ResolverAtRest ==
  /\ registryRecord = ZeroRegistry
  /\ registryCache = << >>
  /\ tokenCache = << >>
  /\ authNow = 0
  /\ ucall = NoCall

CodecAtRest == codec = IdleCodec

PoolAtRest == pool = IdlePool

PutAtRest == put = IdlePut

ManifestAtRest ==
  /\ storageDriver = << >>
  /\ manifestCache = << >>
  /\ manifestCacheDuration = 0
  /\ now = 0
  /\ mreq = [c \in Clients |-> IdleReq]

MInit ==
  /\ storageDriver = << >>
  /\ manifestCache = << >>
  /\ manifestCacheDuration \in {0, CacheDuration}
  /\ now = 0
  /\ mreq = [c \in Clients |-> IdleReq]
  /\ GatewayAtRest
  /\ AgentAtRest
  /\ ResolverAtRest
  /\ CodecAtRest
  /\ PoolAtRest
  /\ PutAtRest

MNext ==
  \/ \E c \in Clients : MStart(c)
  \/ \E c \in Clients : MTryFirst(c)
  \/ \E c \in Clients : MOrigin(c)
  \/ \E c \in Clients : MPutTag(c)
  \/ \E c \in Clients : MPutRev(c)
  \/ \E c \in Clients : MPutBlob(c)
  \/ \E c \in Clients : MPutFail(c)
  \/ \E c \in Clients : MFinish(c)
  \/ MTick

SpecManifest == MInit /\ [][MNext]_vars

GInit ==
  /\ gateway \in GatewayOptions
  /\ greq = IdleGReq
  /\ ManifestAtRest
  /\ agent \in {o \in PlainAgents : ~o.hasBigCache}
  /\ AgentIdle
  /\ ResolverAtRest
  /\ CodecAtRest
  /\ PoolAtRest
  /\ PutAtRest

GNext ==
  \/ GStart
  \/ GServeHTTP
  \/ GBlob
  \/ GAgentServe
  \/ GManifest
  \/ GForward
  \/ GFinish

SpecGateway == GInit /\ [][GNext]_vars

\* Agent.Serve and the workers never read c.authenticator
AInit ==
  /\ agent \in {o \in PlainAgents : ~o.authenticator}
  /\ origin \in [Digests -> Sizes]
  /\ blobCache = << >>
  /\ cache = << >>
  /\ bigCache = << >>
  /\ queue = << >>
  /\ groupQueue = {}
  /\ worker = [w \in Workers |-> IdleWorker]
  /\ areq = [c \in Clients |-> IdleBlobReq]
  /\ upstream = [d \in Digests |-> 0]
  /\ healthy = TRUE
  /\ nreq = 0
  /\ limit = Burst
  /\ message = << >>
  /\ ManifestAtRest
  /\ GatewayAtRest
  /\ ResolverAtRest
  /\ CodecAtRest
  /\ PoolAtRest
  /\ PutAtRest

ANext ==
  \/ \E c \in Clients : AStart(c)
  \/ \E c \in Clients : ALookup(c)
  \/ \E c \in Clients : AAddWeight(c)
  \/ \E c \in Clients : ACancel(c)
  \/ \E c \in Clients : ARecheck(c)
  \/ \E c \in Clients : AFinish(c)
  \/ \E w \in Workers : WGet(w)
  \/ \E w \in Workers : WCacheBlob(w)
  \/ \E bb \in groupQueue : DownloadBlob(bb)
  \/ \E d \in Digests : AExpire(d)

SpecAgent == AInit /\ [][ANext]_vars

\* Blob sizes around blobNoRedirectSize, and the empty blob
DeliverySizes == {0, NoRedirectSize, NoRedirectSize + 1}

\* An agent whose primary cache holds every blob
DInit ==
  /\ agent \in {o \in AgentOptions : ~o.hasBigCache /\ ~o.authenticator /\ ~o.queueClient}
  /\ cache \in [Digests -> DeliverySizes]
  /\ origin = cache
  /\ blobCache = << >>
  /\ bigCache = << >>
  /\ queue = << >>
  /\ groupQueue = {}
  /\ worker = [w \in Workers |-> IdleWorker]
  /\ areq = [c \in Clients |-> IdleBlobReq]
  /\ upstream = [d \in Digests |-> 0]
  /\ healthy = TRUE
  /\ nreq = 0
  /\ limit = Burst
  /\ message = << >>
  /\ ManifestAtRest
  /\ GatewayAtRest
  /\ ResolverAtRest
  /\ CodecAtRest
  /\ PoolAtRest
  /\ PutAtRest

DNext ==
  \/ \E c \in Clients : AStartAny(c)
  \/ \E c \in Clients : ALookup(c)
  \/ \E c \in Clients : AFinish(c)
  \/ \E d \in Digests : AExpire(d)
  \/ ARefill

SpecDelivery == DInit /\ [][DNext]_vars

\* An agent before any origin: what the origin answers is for it to choose, request
\* by request
FInit ==
  /\ agent \in {o \in PlainAgents : ~o.authenticator}
  /\ origin \in [Digests -> {BigCacheSize}]
  /\ blobCache = << >>
  /\ cache = << >>
  /\ bigCache = << >>
  /\ queue = << >>
  /\ groupQueue = {}
  /\ worker = [w \in Workers |-> IdleWorker]
  /\ areq = [c \in Clients |-> IdleBlobReq]
  /\ upstream = [d \in Digests |-> 0]
  /\ healthy = TRUE
  /\ nreq = 0
  /\ limit = Burst
  /\ message = << >>
  /\ ManifestAtRest
  /\ GatewayAtRest
  /\ ResolverAtRest
  /\ CodecAtRest
  /\ PoolAtRest
  /\ PutAtRest

FNext ==
  \/ \E c \in Clients : AStart(c)
  \/ \E c \in Clients : ALookup(c)
  \/ \E c \in Clients : AAddWeight(c)
  \/ \E c \in Clients : ARecheck(c)
  \/ \E c \in Clients : AFinish(c)
  \/ \E w \in Workers : WGet(w)
  \/ \E w \in Workers : WRequest(w)
  \/ \E w \in Workers : WResponse(w)
  \/ \E bb \in groupQueue : DownloadBlob(bb)

SpecFetch == FInit /\ [][FNext]_vars

\* An agent with a queue client, the queue service empty
QInit ==
  /\ agent \in {o \in AgentOptions : /\ o.queueClient
                                     /\ ~o.hasBigCache /\ ~o.authenticator
                                     /\ ~o.hasLimit /\ o.blobNoRedirectSize = 0}
  /\ origin \in [Digests -> {BigCacheSize}]
  /\ blobCache = << >>
  /\ cache = << >>
  /\ bigCache = << >>
  /\ queue = << >>
  /\ groupQueue = {}
  /\ worker = [w \in Workers |-> IdleWorker]
  /\ areq = [c \in Clients |-> IdleBlobReq]
  /\ upstream = [d \in Digests |-> 0]
  /\ healthy = TRUE
  /\ nreq = 0
  /\ limit = Burst
  /\ message = << >>
  /\ ManifestAtRest
  /\ GatewayAtRest
  /\ ResolverAtRest
  /\ CodecAtRest
  /\ PoolAtRest
  /\ PutAtRest

\* A request arrives whose token has a weight
AStartWeighted(c) == Arrive(c, {t \in Tokens : ~t.AlwaysRedirect})

\* The clients of the agent that waits on the queue service: one is enough for a
\* worker to wait; the other agents of the fleet are the runners of the service
Requesters == {"c1"}

QNext ==
  \/ \E c \in Requesters : AStartWeighted(c)
  \/ \E c \in Requesters : ALookup(c)
  \/ \E c \in Requesters : AAddWeight(c)
  \/ \E c \in Requesters : ARecheck(c)
  \/ \E c \in Requesters : AFinish(c)
  \/ \E w \in Workers : WGet(w)
  \/ \E w \in Workers : WCreate(w)
  \/ \E w \in Workers : WWatch(w)
  \/ \E w \in Workers : WCacheBlob(w)
  \/ \E bb \in groupQueue : DownloadBlob(bb)
  \/ \E d \in Digests : QAdvance(d)

SpecQueue == QInit /\ [][QNext]_vars

\* The goroutines of the workers run, the calls to the origin and to the queue service
\* return, and the queue service goes on with its messages
SpecQueueFair ==
  /\ SpecQueue
  /\ \A w \in Workers :
       WF_vars(WCreate(w)) /\ WF_vars(WWatch(w)) /\ WF_vars(WCacheBlob(w))
  /\ WF_vars(\E bb \in groupQueue : DownloadBlob(bb))
  /\ \A d \in Digests : WF_vars(QAdvance(d))

\* NewAuthManager, with the registry the service holds
PInit ==
  /\ registryRecord \in PolicyRegistries
  /\ registryCache = << >>
  /\ tokenCache = << >>
  /\ authNow = 0
  /\ ucall = NoCall
  /\ ManifestAtRest
  /\ GatewayAtRest
  /\ AgentAtRest
  /\ CodecAtRest
  /\ PoolAtRest
  /\ PutAtRest

PNext == UResolve

SpecPolicy == PInit /\ [][PNext]_vars

UInit ==
  /\ registryRecord \in TtlRegistries
  /\ registryCache = << >>
  /\ tokenCache = << >>
  /\ authNow = 0
  /\ ucall = NoCall
  /\ ManifestAtRest
  /\ GatewayAtRest
  /\ AgentAtRest
  /\ CodecAtRest
  /\ PoolAtRest
  /\ PutAtRest

UNext ==
  \/ ULookup
  \/ UTick

SpecAuth == UInit /\ [][UNext]_vars

CInit ==
  /\ codec = IdleCodec
  /\ ManifestAtRest
  /\ GatewayAtRest
  /\ AgentAtRest
  /\ ResolverAtRest
  /\ PoolAtRest
  /\ PutAtRest

CNext ==
  \/ CEncode
  \/ CAlter
  \/ CGarbage
  \/ CDecode
  \/ CReset

SpecCodec == CInit /\ [][CNext]_vars

\* NewAgent is called with a concurrency
LInit ==
  /\ pool \in {NewPool(c) : c \in 1 .. MaxPoolConcurrency}
  /\ PutAtRest
  /\ ManifestAtRest
  /\ GatewayAtRest
  /\ AgentAtRest
  /\ ResolverAtRest
  /\ CodecAtRest

LNext ==
  \/ PGroups
  \/ PSmall
  \/ PNext1
  \/ \E g \in 0 .. GroupQueues - 1 : PAddWeight(g)
  \/ \E k \in DOMAIN pool.drains : PDownload(k)

SpecPools == LInit /\ [][LNext]_vars

\* Cache.Put or Cache.PutWithHash is called
SInit ==
  /\ put \in {NewPut(check, size, object) :
                check \in BOOLEAN, size \in {0, MaxBytes - 1}, object \in {"", "old"}}
  /\ PoolAtRest
  /\ ManifestAtRest
  /\ GatewayAtRest
  /\ AgentAtRest
  /\ ResolverAtRest
  /\ CodecAtRest

SNext ==
  \/ PutWriter
  \/ PutCopy
  \/ PutCheck
  \/ PutCommit

SpecPut == SInit /\ [][SNext]_vars

(***************************************************************************)
(* Properties of the manifest cache.                                       *)
(***************************************************************************)
\* The paths and the digest cacheManifestContent writes for request q
RevPathOf(q, content) == manifestRevisionsCachePath(q.host, q.image, Hash(content))
TagPathOf(q) == manifestTagCachePath(q.host, q.image, q.manifests[2])
Digest(content) == <<"sha256:", Hash(content)>>

\* C2: for a request whose ref is sha256:X, an origin body (of a 200 response)
\* that does not hash to X is answered 500/UNKNOWN, not with the origin's status,
\* and the request writes no link file and no body; a body such a request
\* stores hashes to X.
C2_DigestMismatchIsError ==
  \A c \in Clients :
    LET q == mreq[c] IN
    (isHash(q.manifests) /\ q.method = "GET" /\ q.status = 200)
      => /\ (q.pc = "done" /\ Hash(q.body) # q.manifests[2])
              => (q.rw.code = 500 /\ q.rw.body = "errcode:UNKNOWN" /\ q.wrote = {})
         /\ (q.wrote # {} => Hash(q.body) = q.manifests[2])

\* C3: a request writes to storage (and, with it, to the freshness map) only
\* for an origin response with a 2xx status.
C3_WritesOnlyFor2xx ==
  \A c \in Clients :
    LET q == mreq[c] IN
    (q.pc \in {"putTag", "putRev", "putBlob"} \/ q.wrote # {})
      => (q.status >= 200 /\ q.status < 300)

\* The state of storage as cacheManifestContent returns success for client c
ReturnsSuccess(c) ==
  mreq[c].pc = "putBlob" /\ mreq'[c].pc = "done" /\ mreq'[c].via = "cached"

\* C4 as claimed: when cacheManifestContent returns success the revision link
\* and the body exist, and for a tag ref the tag link exists and contains the
\* body's digest.
C4_SuccessLeavesLinksAndBody ==
  [][\A c \in Clients :
       ReturnsSuccess(c) =>
         LET q == mreq'[c] IN
         /\ RevPathOf(q, q.body) \in DOMAIN storageDriver'
         /\ blobCachePath(Hash(q.body)) \in DOMAIN storageDriver'
         /\ ~isHash(q.manifests) =>
              /\ TagPathOf(q) \in DOMAIN storageDriver'
              /\ storageDriver'[TagPathOf(q)] = Digest(q.body)]_vars

\* C4 amended: the tag link exists, and contains the body's digest unless
\* another request wrote the same tag link after this one did.
C4_SuccessLeavesLinksAndBodyLastWriter ==
  [][\A c \in Clients :
       ReturnsSuccess(c) =>
         LET q == mreq'[c] IN
         /\ RevPathOf(q, q.body) \in DOMAIN storageDriver'
         /\ storageDriver'[RevPathOf(q, q.body)] = Digest(q.body)
         /\ blobCachePath(Hash(q.body)) \in DOMAIN storageDriver'
         /\ storageDriver'[blobCachePath(Hash(q.body))] = q.body
         /\ ~isHash(q.manifests) =>
              /\ TagPathOf(q) \in DOMAIN storageDriver'
              /\ q.tagCurrent => storageDriver'[TagPathOf(q)] = Digest(q.body)]_vars

\* C4, witness: a tag request whose cacheManifestContent returned success and whose tag link holds its digest
C4_Witness ==
  \E c \in Clients :
    /\ mreq[c].pc = "done" /\ mreq[c].via = "cached" /\ ~isHash(mreq[c].manifests)
    /\ mreq[c].tagCurrent
    /\ storageDriver[TagPathOf(mreq[c])] = Digest(mreq[c].body)

\* C5: in every state the revision link of (host, image, digest) exists if and
\* only if the blob body of that digest exists.
C5_RevisionLinkIffBody ==
  \A h \in Hosts, i \in Images, b \in Bodies :
    (manifestRevisionsCachePath(h, i, Hash(b)) \in DOMAIN storageDriver)
      <=> (blobCachePath(Hash(b)) \in DOMAIN storageDriver)

\* C6: in every state a tag link that exists contains a digest whose revision
\* link and blob body exist.
C6_TagLinkResolves ==
  \A h \in Hosts, i \in Images, t \in Tags :
    LET p == manifestTagCachePath(h, i, t) IN
    p \in DOMAIN storageDriver =>
      /\ manifestRevisionsCachePath(h, i, storageDriver[p][2]) \in DOMAIN storageDriver
      /\ blobCachePath(storageDriver[p]) \in DOMAIN storageDriver

\* The origin request of q failed: a transport error (status 0) or a status
\* outside 2xx/3xx
OriginFailed(q) == q.contacted /\ (q.status < 200 \/ q.status >= 400)

\* The failure of the origin as it is surfaced to the client
Surfaced(q) ==
  /\ q.status = 0 => (q.rw.code = 500 /\ q.rw.body = "errcode:UNKNOWN")
  /\ q.status \in {401, 403} => (q.rw.code = 403 /\ q.rw.body = "errcode:DENIED")
  /\ q.status \notin {0, 401, 403} => q.rw.code = q.status

\* Storage holds, under the link at path p, a body that is a manifest
\* (a JSON document)
HoldsManifest(p) ==
  /\ p \in DOMAIN storageDriver
  /\ <<"blobs", storageDriver[p][2]>> \in DOMAIN storageDriver
  /\ storageDriver[<<"blobs", storageDriver[p][2]>>] = "manifest"

\* The step in which client c's origin request ends
OriginStep(c) == mreq[c].pc = "origin" /\ mreq'[c].pc # "origin"

\* C7: for a tag ref, when the origin request fails and the tag link with a
\* readable manifest body is cached, the answer is 200 with the cached body;
\* with no cached copy the failure is surfaced (DENIED for 401/403, UNKNOWN for
\* a transport error, the origin status otherwise).
C7_TagFallback ==
  [][\A c \in Clients :
       (OriginStep(c) /\ ~isHash(mreq[c].manifests) /\ OriginFailed(mreq'[c])) =>
         LET q == mreq'[c] IN
         IF HoldsManifest(TagPathOf(q))
         THEN /\ q.pc = "done"
              /\ q.rw.code = 200
              /\ q.rw.digest = "sha256:" \o storageDriver[TagPathOf(q)][2]
              /\ q.rw.body = (IF q.method = "GET" THEN "manifest" ELSE "")
         ELSE Surfaced(q)]_vars

\* C7, witness: a tag request answered 200 with the cached manifest after the origin answered 503
C7_Witness ==
  \E c \in Clients :
    /\ mreq[c].pc = "done" /\ mreq[c].via = "fallback" /\ mreq[c].status = 503
    /\ mreq[c].rw.code = 200 /\ mreq[c].rw.body = "manifest"

\* The step in which client c is answered from the cache without any origin
\* request
FirstServed(c) ==
  mreq[c].pc = "tryFirst" /\ mreq'[c].pc = "done" /\ ~mreq'[c].contacted

Fresh(p) ==
  p \in DOMAIN manifestCache /\ now - manifestCache[p] <= manifestCacheDuration

\* C8 as claimed: a tag ref is answered from the cache without contacting the
\* origin only if its freshness timestamp exists and is no older than
\* manifest_cache_duration, whatever the configured duration (0 included).
C8_FirstServeOnlyWhenFresh ==
  [][\A c \in Clients :
       (FirstServed(c) /\ ~isHash(mreq[c].manifests)) => Fresh(TagPathOf(mreq[c]))]_vars

\* C8 amended: that holds when manifest_cache_duration > 0; with a duration of
\* 0 no freshness check is made and no timestamp is kept: a tag whose link and
\* manifest body are cached is then answered from the cache without the origin.
C8_FirstServeOnlyWhenFreshIfEnabled ==
  [][\A c \in Clients :
       /\ (FirstServed(c) /\ ~isHash(mreq[c].manifests) /\ manifestCacheDuration > 0)
            => Fresh(TagPathOf(mreq[c]))
       /\ (mreq[c].pc = "tryFirst" /\ mreq'[c].pc # "tryFirst"
             /\ ~isHash(mreq[c].manifests) /\ manifestCacheDuration = 0)
            => /\ FirstServed(c) <=> HoldsManifest(TagPathOf(mreq[c]))
               /\ manifestCache' = << >>]_vars

\* C8, witness: a tag request answered from the cache without the origin, with a duration above 0, after time has passed
C8_Witness ==
  \E c \in Clients :
    /\ mreq[c].pc = "done" /\ mreq[c].via = "first" /\ ~isHash(mreq[c].manifests)
    /\ manifestCacheDuration > 0
    /\ now > 0

\* C9: a ref sha256:X whose revision link and manifest body are cached is
\* served from the cache with no freshness check and no origin request,
\* whatever the duration and the age; and when the origin fails for a sha256
\* ref no cached content is served: the origin's outcome is returned.
C9_DigestRefServedFromCache ==
  [][\A c \in Clients :
       /\ (mreq[c].pc = "tryFirst" /\ mreq'[c].pc # "tryFirst" /\ isHash(mreq[c].manifests)
             /\ HoldsManifest(LinkPathOf(mreq[c])))
            => LET q == mreq'[c] IN
               /\ q.pc = "done" /\ ~q.contacted
               /\ q.rw.code = 200
               /\ q.rw.digest = "sha256:" \o q.manifests[2]
               /\ q.rw.body = (IF q.method = "GET" THEN "manifest" ELSE "")
       /\ (OriginStep(c) /\ isHash(mreq[c].manifests) /\ OriginFailed(mreq'[c]))
            => (mreq'[c].via # "fallback" /\ Surfaced(mreq'[c]))]_vars

\* C9, witness: a digest request answered from the cache without the origin at the latest time, with a duration above 0
C9_Witness ==
  \E c \in Clients :
    /\ mreq[c].pc = "done" /\ mreq[c].via = "first" /\ isHash(mreq[c].manifests)
    /\ manifestCacheDuration > 0
    /\ now = MaxTime
    /\ mreq[c].rw.code = 200 /\ mreq[c].rw.digest = "sha256:" \o mreq[c].manifests[2]

\* Request c is at the store of the tag link and of its timestamp, after a successful
\* origin fetch (cacheManifestContent, lines 115-123)
StoresTag(c, manifestLinkPath) ==
  /\ mreq[c].pc = "putTag"
  /\ mreq'[c].pc = "putRev"
  /\ TagPathOf(mreq[c]) = manifestLinkPath

\* C38: the freshness timestamp of a tag records its last successful origin fetch:
\* it is set or moved only by the store that follows a successful origin fetch of
\* that tag, never by a serve from the cache (first-serve or origin-failure
\* fallback), so that a cached tag is served without the origin for at most
\* manifest_cache_duration after the fetch and is then fetched again.
C38_TimestampRecordsOriginFetch ==
  [][\A manifestLinkPath \in DOMAIN manifestCache' :
       (/\ manifestLinkPath[1] = "tags"
        /\ \/ manifestLinkPath \notin DOMAIN manifestCache
           \/ manifestCache'[manifestLinkPath] # manifestCache[manifestLinkPath])
       => \E c \in Clients : StoresTag(c, manifestLinkPath)]_vars

(***************************************************************************)
(* Properties of the gateway entry.                                        *)
(***************************************************************************)
\* Gateway.ServeHTTP has acted on the request
Handled == greq.pc \notin {"idle", "serve"} /\ greq.handler = "Gateway"

\* The response is the Bearer challenge
Challenged == greq.rw.code = 401 /\ greq.rw.header = "WWW-Authenticate: Bearer"

\* The token is missing or fails decoding
NoValidToken == AuthorizationErr(greq.authData)

\* The token decodes and its scope is empty
EmptyScope == ~AuthorizationErr(greq.authData) /\ Decode(greq.authData[2]).Scope = ""

\* C10 as claimed: every request under /v2/ (/v2/ itself included) whose token is
\* missing or fails decoding is answered with the Bearer challenge and causes no
\* origin request, storage access or agent call; a request other than /v2/ whose
\* token has an empty scope is likewise challenged.
C10_ChallengeUnderV2 ==
  (Handled /\ HasPrefix(greq.path, prefix)) =>
    /\ NoValidToken => (greq.pc = "done" /\ Challenged /\ greq.calls = {})
    /\ (EmptyScope /\ greq.path # prefix) => (greq.pc = "done" /\ Challenged /\ greq.calls = {})

\* The requests the gateway authenticates: GET or HEAD, under /v2/, not the catalog,
\* with an authenticator configured
Authenticated ==
  /\ gateway.authenticator
  /\ greq.method \in {"GET", "HEAD"}
  /\ HasPrefix(greq.path, prefix)
  /\ greq.path # catalog

\* C10 amended: that holds for GET and HEAD requests other than /v2/_catalog when an
\* authenticator is configured; without an authenticator no request is challenged,
\* and a request that is not authenticated causes no call when its method is not GET
\* or HEAD or its path is the catalog.
C10_ChallengeWhenAuthenticated ==
  Handled =>
    /\ (Authenticated /\ NoValidToken)
         => (greq.pc = "done" /\ Challenged /\ greq.calls = {})
    /\ (Authenticated /\ EmptyScope /\ greq.path # prefix)
         => (greq.pc = "done" /\ Challenged /\ greq.calls = {})
    /\ ~gateway.authenticator => ~Challenged
    /\ (HasPrefix(greq.path, prefix) /\ ~Authenticated /\ gateway.authenticator)
         => (greq.pc = "done" /\ ~Challenged /\ greq.calls = {})

\* C10, witness: a GET of a manifest with a token that does not decode, answered with the challenge
C10_Witness ==
  /\ greq.pc = "done" /\ Authenticated
  /\ greq.path = <<"v2", "docker.io", "library/busybox", "manifests", "1">>
  /\ greq.authData = <<"Bearer", "garbage">>
  /\ Challenged /\ greq.calls = {}

\* Gateway.ServeHTTP or Agent.ServeHTTP has acted on the request
Entered == greq.pc \notin {"idle", "serve"}

\* The request is one the claim is about: a method other than GET and HEAD, or the catalog
NotServed == greq.method \notin {"GET", "HEAD"} \/ greq.path = catalog

\* The answer is UNSUPPORTED, written before any token was read, and nothing was called
Unsupported ==
  /\ greq.pc = "done"
  /\ greq.rw = ServeJSON(NewGatewayRW, "UNSUPPORTED")
  /\ greq.t = ZeroToken
  /\ greq.calls = {}

\* C11 as claimed: a request whose method is not GET or HEAD, or whose path is
\* /v2/_catalog, is answered UNSUPPORTED before authentication is attempted and
\* reaches neither the manifest cache, the agent nor the origin.
C11_UnsupportedBeforeAuth ==
  (Entered /\ NotServed) => Unsupported

\* C11 amended: that holds for the requests under /v2/ at the gateway, and at the
\* agent for the method; a request outside /v2/ is answered 404 whatever its method,
\* and the agent, which has no catalog rule, answers /v2/_catalog with 404. In each
\* of these cases no token is read and nothing is called.
C11_UnsupportedUnderV2 ==
  (Entered /\ NotServed) =>
    /\ (HasPrefix(greq.path, prefix) /\ greq.handler = "Gateway") => Unsupported
    /\ (HasPrefix(greq.path, prefix) /\ greq.method \notin {"GET", "HEAD"}) => Unsupported
    /\ ~Unsupported =>
         /\ ~HasPrefix(greq.path, prefix) \/ (greq.handler = "Agent" /\ greq.path = catalog)
         /\ greq.pc = "done" /\ greq.rw = NotFound(NewGatewayRW)
         /\ greq.t = ZeroToken /\ greq.calls = {}

\* C11, witness: a POST of a blob path with a valid token at a gateway with an
\* authenticator, answered UNSUPPORTED
C11_Witness ==
  /\ greq.pc = "done" /\ greq.handler = "Gateway" /\ gateway.authenticator
  /\ greq.method = "POST"
  /\ greq.path = <<"v2", "docker.io", "library/busybox", "blobs", "sha256:aa11">>
  /\ greq.authData = <<"Bearer", "pull">>
  /\ greq.rw.code = 405 /\ greq.rw.body = "errcode:UNSUPPORTED" /\ greq.calls = {}

\* The handler decoded the token of the request and the token has block set
DecodedBlocked == Entered /\ greq.t.Block

\* The answer is DENIED, with the block message when the token has one
Denied == greq.rw = ServeDenied(NewGatewayRW, greq.t.BlockMessage)

\* The request was answered by the handler itself: no blob enqueued, no manifest read
\* or written, no origin request
NotDispatched == greq.pc = "done" /\ greq.calls = {} /\ greq.info = ZeroPathInfo

\* The handler has an authenticator, and the request gets as far as Authorization
\* with a header whose token has block set
PresentsBlocked ==
  /\ HasPrefix(greq.path, prefix) /\ greq.method \in {"GET", "HEAD"}
  /\ ~AuthorizationErr(greq.authData) /\ Decode(greq.authData[2]).Block
  /\ \/ greq.handler = "Gateway" /\ gateway.authenticator /\ greq.path # catalog
     \/ greq.handler = "Agent" /\ agent.authenticator /\ parsePath(greq.path)

\* C12 as claimed: a request whose decoded token has block set is answered DENIED
\* (with the block message when non-empty) and never reaches path dispatch.
C12_BlockedIsDenied ==
  DecodedBlocked => (Denied /\ NotDispatched)

\* C12 amended: a request whose decoded token has block set never reaches path
\* dispatch; it is answered DENIED (with the block message when non-empty) unless
\* the gateway answers it earlier: /v2/ itself is answered with the API base, and a
\* token with an empty scope with the Bearer challenge.
C12_BlockedNeverDispatched ==
  /\ (Entered /\ PresentsBlocked) => DecodedBlocked
  /\ DecodedBlocked =>
       /\ NotDispatched
       /\ IF greq.handler = "Gateway" /\ greq.path = prefix
          THEN greq.rw = ResponseAPIBase(NewGatewayRW)
          ELSE IF greq.handler = "Gateway" /\ greq.t.Scope = ""
          THEN greq.rw = Authenticate(NewGatewayRW)
          ELSE Denied

\* C12, witness: a GET of a manifest with a blocked token that carries a message,
\* answered DENIED with that message
C12_Witness ==
  /\ greq.pc = "done" /\ greq.handler = "Gateway" /\ greq.method = "GET"
  /\ greq.path = <<"v2", "docker.io", "library/busybox", "manifests", "1">>
  /\ greq.authData = <<"Bearer", "blocked">> /\ greq.t.Block
  /\ greq.rw.code = 403 /\ greq.rw.body = "errcode:DENIED:blocked by admin"
  /\ greq.calls = {}

\* The host the path carries: its first segment after /v2/ when that is a domain name
PathHost == IF Len(greq.path) = 5 /\ IsDomain(greq.path[2]) THEN greq.path[2] ELSE ""

\* The gateway has resolved the upstream host of the request: a GET or HEAD of a
\* repository path that passed authentication
Resolved ==
  /\ Entered /\ greq.handler = "Gateway"
  /\ greq.method \in {"GET", "HEAD"}
  /\ parseOriginPathOk(greq.path)
  /\ gateway.authenticator =>
       (~AuthorizationErr(greq.authData) /\ greq.t.Scope # "" /\ ~greq.t.Block)

\* What follows the resolution to the host h: DENIED when h is empty or the ns query
\* names another host, else the request goes on with h
GoesOnWith(h) ==
  IF h = "" \/ (greq.ns # "" /\ greq.ns # h)
  THEN greq.rw = ServeJSON(NewGatewayRW, "DENIED") /\ NotDispatched
  ELSE IF gateway.disableTagsList /\ greq.path[Len(greq.path) - 1] = "tags" /\ ~greq.t.AllowTagsList
  THEN greq.rw = ResponseEmptyTagsList(NewGatewayRW) /\ NotDispatched
  ELSE greq.info.Host = h /\ (greq.pc # "done" \/ greq.calls # {})

\* C13 as claimed: the upstream host is the host of the path when the path carries
\* one; only otherwise it is the token attribute, then the override map entry, then
\* the configured default; a request for which all are empty is denied.
C13_PathHostFirst ==
  Resolved =>
    GoesOnWith(IF PathHost # "" THEN PathHost
               ELSE IF greq.t.Attribute.Host # "" THEN greq.t.Attribute.Host
               ELSE IF gateway.overrideDefaultRegistry # "" THEN gateway.overrideDefaultRegistry
               ELSE gateway.defaultRegistry)

\* C13 amended: the upstream host is the token attribute host when the token has
\* one, whatever the path says; otherwise the host of the path when it carries one;
\* otherwise the override map entry, then the configured default; a request for
\* which all are empty is denied.
C13_TokenHostFirst ==
  Resolved =>
    GoesOnWith(IF greq.t.Attribute.Host # "" THEN greq.t.Attribute.Host
               ELSE IF PathHost # "" THEN PathHost
               ELSE IF gateway.overrideDefaultRegistry # "" THEN gateway.overrideDefaultRegistry
               ELSE gateway.defaultRegistry)

\* C13, witness: a manifest request whose path names docker.io and whose token names
\* ghcr.io, dispatched to ghcr.io
C13_Witness ==
  /\ Resolved /\ gateway.authenticator
  /\ greq.path = <<"v2", "docker.io", "library/busybox", "manifests", "1">>
  /\ greq.authData = <<"Bearer", "mirror">>
  /\ greq.info.Host = "ghcr.io" /\ greq.calls # {}

\* Gateway.forward handed the response of the origin on to the client
PassedThrough ==
  /\ greq.pc = "done" /\ greq.handler = "Gateway"
  /\ greq.calls = {"origin"}
  /\ greq.rw.body \notin {"errcode:UNKNOWN", "errcode:DENIED"}

\* C20: a Link header of the origin whose target is the relative
\* /v2/{image}/tags/list or an absolute scheme://origin/v2/{image}/tags/list is
\* rewritten to /v2/{host}/{image}/tags/list, without scheme and origin host and
\* with every other link parameter kept; this is done only for a 200 response that
\* carries a Link header, any other response keeping the header it came with.
C20_PaginationRewrite ==
  PassedThrough =>
    IF greq.rw.code = 200 /\ greq.oldLink # NoLink
    THEN /\ greq.rw.link.origin = ""
         /\ greq.rw.link.path = <<"v2", greq.info.Host, greq.oldLink.path[2], "tags", "list">>
         /\ greq.rw.link.params = greq.oldLink.params
    ELSE greq.rw.link = greq.oldLink

\* C20, witness: a 200 tags list of the origin with an absolute Link target, handed
\* on with the target under the host of the request
C20_Witness ==
  /\ PassedThrough /\ greq.rw.code = 200
  /\ greq.path = <<"v2", "docker.io", "library/busybox", "tags", "list">>
  /\ greq.oldLink # NoLink /\ greq.oldLink.origin = "http://domain"
  /\ greq.rw.link =
       [origin |-> "", path |-> <<"v2", "docker.io", "image", "tags", "list">>,
        params |-> "ref=other"]

(***************************************************************************)
(* Properties of the blob agent.                                           *)
(***************************************************************************)
\* C1: while the origin and the storage are healthy, at most one upstream GET is
\* issued for a digest, whatever host and image the concurrent requests for it
\* name, and every requester is answered successfully with the size of the blob.
C1_OneUpstreamGetPerDigest ==
  (healthy /\ ~agent.hasBigCache) =>
    /\ \A d \in Digests : upstream[d] <= 1
    /\ \A c \in Clients :
         (areq[c].pc = "done" /\ ~areq[c].cancelled) =>
           (areq[c].rw.code \in {200, 307} /\ areq[c].rw.size = origin[areq[c].info.Blobs])

\* Agent.Serve delivers to client c, in this step, a blob it found available
Delivers(c) == areq[c].pc \in {"serve", "recheck"} /\ areq'[c].pc = "done"

\* The size Agent.Serve finds for the blob of a request
FoundSize(q) ==
  IF q.info.Blobs \in DOMAIN blobCache THEN blobCache[q.info.Blobs].Size
  ELSE cache[q.info.Blobs]

\* The limiter cannot admit immediately
CannotAdmit == agent.hasLimit /\ limit = 0

\* The response is a redirect to a signed URL
IsRedirect(rw) == rw.code = 307 /\ rw.location = "signed"

Available(q) ==
  IF q.info.Blobs \in DOMAIN blobCache THEN blobCache[q.info.Blobs].Error = ""
  ELSE q.info.Blobs \in DOMAIN cache

\* C22: a HEAD request for an available blob of any size, 0 included, is answered with
\* Content-Length and Content-Type application/octet-stream only: no redirect, no read
\* of the blob body, nothing taken from the no-redirect limiter.
C22_HeadOnlyHeaders ==
  [][\A c \in Clients :
       (Delivers(c) /\ areq[c].method = "HEAD" /\ Available(areq[c])) =>
         /\ areq'[c].rw =
              [NewAgentRW EXCEPT !.code = 200, !.size = FoundSize(areq[c]),
                                 !.type = "application/octet-stream"]
         /\ limit' = limit]_vars

\* Client c gives up in this step
Cancels(c) == areq[c].pc = "wait" /\ areq'[c].cancelled

\* The entry of info leaves the admission queue in this step: its finish() is called
Finishes(info) == info \in DOMAIN queue /\ info \notin DOMAIN queue'

\* C23: a requester that gives up while its blob is queued or being fetched takes
\* nothing with it: the queue entry, the workers, the downloads and the other requests
\* stay as they are; every requester that waits has an entry in the queue; and when an
\* entry is finished the blob cache holds an entry for its digest and every requester
\* still waiting on it goes on.
C23_CancelKeepsFetch ==
  /\ [](\A c \in Clients : areq[c].pc = "wait" => areq[c].info \in DOMAIN queue)
  /\ [][\A c \in Clients :
          Cancels(c) =>
            /\ queue' = queue /\ worker' = worker /\ groupQueue' = groupQueue
            /\ blobCache' = blobCache /\ upstream' = upstream
            /\ \A o \in Clients \ {c} : areq'[o] = areq[o]]_vars
  /\ [][\A info \in BlobInfos :
          Finishes(info) =>
            /\ info.Blobs \in DOMAIN blobCache'
            /\ \A c \in Clients :
                 (areq[c].pc = "wait" /\ areq[c].info = info) => areq'[c].pc = "recheck"]_vars

\* One requester gave up, the fetch for its blob was made all the same, and another
\* requester that waited for the same blob has been let go on with the blob cached
C23_Witness ==
  \E c, o \in Clients :
    /\ areq[c].pc = "done" /\ areq[c].cancelled
    /\ areq[o].pc = "recheck" /\ areq[o].info = areq[c].info
    /\ upstream[areq[c].info.Blobs] = 1
    /\ areq[c].info.Blobs \in DOMAIN blobCache
    /\ blobCache[areq[c].info.Blobs].Error = ""

\* The origin handshake of admission worker w ends in an error in this step
FetchFails(w) ==
  worker[w].pc = "cacheBlob" /\ worker'[w].pc = "get" /\ groupQueue' = groupQueue

\* The in-memory entry of a digest is a live error
CachedError(d) == d \in DOMAIN blobCache /\ blobCache[d].Error # ""

StorageErrors == {"put failed", "stat failed", "size mismatch"}

\* C26: a storage error during a blob download leaves no error entry in the blob
\* cache, so the next request for the digest starts a new fetch.
C26_StorageErrorNotCached ==
  \A d \in DOMAIN blobCache : blobCache[d].Error \notin StorageErrors

\* Admission worker w handles in this step an answer of the origin that has a status
Answered(w) ==
  worker[w].pc = "response" /\ worker'[w].pc = "get" /\ worker[w].resp.err = ""

\* The error and status code cacheBlob returned in this step for a digest, as the
\* worker recorded them
Returned(d, err, sc) ==
  /\ d \in DOMAIN blobCache'
  /\ blobCache'[d].Error = err
  /\ blobCache'[d].StatusCode = sc

\* C27: cacheBlob maps the status of the origin: 401 and 403 give DENIED; any other
\* 4xx gives the errors parsed from the body with the status of the origin; every
\* status outside 2xx, 3xx and 4xx (1xx, 5xx) gives UNKNOWN; in none of these cases is
\* anything written to storage, and the body of the response is closed.
C27_StatusMapping ==
  [][\A w \in Workers :
       (Answered(w) /\ (worker[w].resp.status < 200 \/ worker[w].resp.status >= 300)) =>
         LET resp == worker[w].resp
             d == worker[w].info.Blobs
         IN
         /\ resp.status \in {401, 403} => Returned(d, "DENIED", 0)
         /\ (resp.status >= 400 /\ resp.status < 500 /\ resp.status \notin {401, 403}
               /\ resp.payload = "errors")
              => Returned(d, "BLOB_UNKNOWN", resp.status)
         /\ (resp.status < 200 \/ resp.status >= 500) => Returned(d, "UNKNOWN", 0)
         /\ cache' = cache /\ bigCache' = bigCache
         /\ cacheBlobErr(resp).closed]_vars

\* The download bb is run in this step
Downloads(bb) == bb \in groupQueue /\ bb \notin groupQueue'

\* C28: a fetched blob is recorded as available in the blob cache only if the number
\* of bytes streamed into the cache equals the Content-Length of the origin; a body
\* shorter or longer than Content-Length is reported as a failed download.
C28_LengthVerified ==
  [][\A bb \in groupQueue :
       Downloads(bb) =>
         LET entry == blobCache'[bb.Info.Blobs] IN
         /\ entry.Error = "" => entry.Size = bb.ContentLength
         /\ bb.Sent # bb.ContentLength => entry.Error # ""]_vars

\* Admission worker w creates the message of its digest in this step
Creates(w) ==
  /\ worker[w].pc = "waitingQueue"
  /\ worker[w].info.Blobs \notin DOMAIN message
  /\ worker[w].info.Blobs \in DOMAIN message'

\* C29: with a queue client, before any origin fetch the worker creates a queue
\* message whose content is the digest of the blob, whose priority is the weight plus
\* one and whose attributes are the kind "blob" and the host and image of the request.
C29_MessageCreated ==
  /\ [][\A w \in Workers :
          Creates(w) =>
            LET info == worker[w].info
                msg == message'[info.Blobs]
            IN
            /\ msg.Content = info.Blobs
            /\ msg.Priority = worker[w].weight + 1
            /\ msg.Data.Kind = "blob"
            /\ msg.Data.Host = info.Host
            /\ msg.Data.Image = info.Image]_vars
  /\ [][\A d \in Digests :
          upstream'[d] # upstream[d] =>
            (d \in DOMAIN message \/ \E w \in Workers : worker[w].err = "failed to create queue")]_vars

\* waitingQueue returns to admission worker w in this step
QueueReturns(w) ==
  worker[w].pc \in {"waitingQueue", "watch"} /\ worker'[w].pc \in {"get", "cacheBlob"}

\* waitingQueue has a message when it returns in this step: Create and Watch did not
\* fail
SawMessage(w) ==
  worker'[w].err \notin {"failed to create queue", "failed to watch message",
                         "failed to re-watch message"}

\* The status waitingQueue saw last when it returns in this step
LastStatus(w) ==
  IF worker[w].pc = "watch" THEN worker[w].mr.Status
  ELSE message'[worker[w].info.Blobs].Status

\* waitingQueue returns success only on a completed message, and its error on a failed
\* one; it does not return on a pending or processing message unless Watch fails; on a
\* message in cleanup the worker fetches the blob itself, as for a message it could
\* not create
WaitsForQueue(w) ==
  /\ worker'[w].pc = "get" => (SawMessage(w) /\ LastStatus(w) = StatusCompleted)
  /\ (SawMessage(w) /\ LastStatus(w) = StatusFailed) => worker'[w].err = "Queue Error"
  /\ SawMessage(w) => LastStatus(w) \notin {StatusPending, StatusProcessing}
  /\ (SawMessage(w) /\ LastStatus(w) = StatusCleanup) => worker'[w].pc = "cacheBlob"

\* The requesters waiting on the entry of worker w are handed the given error in this
\* step: it is recorded for the digest and the entry is finished
AnsweredWith(w, err) ==
  /\ worker[w].info.Blobs \in DOMAIN blobCache'
  /\ blobCache'[worker[w].info.Blobs].Error = err
  /\ Finishes(worker[w].info)

\* The worker records nothing in this step and goes on to fetch the blob itself
FetchesItself(w) ==
  /\ worker'[w].pc = "cacheBlob"
  /\ blobCache' = blobCache
  /\ queue' = queue
  /\ areq' = areq

\* C30: waitingQueue returns success only when the status it saw last is completed,
\* and the queue error when it is failed, in which case the request is answered with
\* that error; while the status is pending or processing it keeps watching and does
\* not return unless Watch fails; a message in cleanup is treated as missing.
C30_WaitingQueue ==
  [][\A w \in Workers :
       QueueReturns(w) =>
         /\ WaitsForQueue(w)
         /\ worker'[w].err = "Queue Error" => AnsweredWith(w, "Queue Error")]_vars

\* C30, amended: as above, but on the queue error of a failed message the worker
\* records nothing and goes on to fetch the blob from the origin itself, so the
\* request is answered with the outcome of that fetch.
C30_WaitingQueueThenFetch ==
  [][\A w \in Workers :
       QueueReturns(w) =>
         /\ WaitsForQueue(w)
         /\ worker'[w].err = "Queue Error" => FetchesItself(w)]_vars

\* waitingQueue has returned the queue error of a failed message, and the worker is
\* about to fetch the blob
C30_Witness ==
  \E w \in Workers :
    /\ worker[w].pc = "cacheBlob"
    /\ worker[w].err = "Queue Error"
    /\ message[worker[w].info.Blobs].Status \in {StatusFailed, StatusCleanup}

\* C24: whenever the admission of a requester for a digest completes, the requester
\* finds an entry of the blob cache (a size or an error) for the digest or the blob in
\* storage; the last branch of Serve, which answers UNKNOWN, is never taken.
C24_AdmissionLeavesEntry ==
  [][\A c \in Clients :
       (areq[c].pc = "recheck" /\ areq'[c].pc = "done") =>
         LET d == areq[c].info.Blobs IN
         \/ d \in DOMAIN blobCache
         \/ agent.hasBigCache /\ d \in DOMAIN bigCache
         \/ d \in DOMAIN cache]_vars

\* The blob of a digest is in storage this agent reads
InStorage(d) == d \in DOMAIN cache \/ (agent.hasBigCache /\ d \in DOMAIN bigCache)

\* C31: when the queue reports a message completed and the blob is not in storage
\* this agent reads, the worker goes on to fetch the blob from the origin itself, so
\* that the requester waiting on the entry is served the blob.
C31_CompletedFallsBack ==
  [][\A w \in Workers :
       (QueueReturns(w) /\ SawMessage(w) /\ LastStatus(w) = StatusCompleted
          /\ ~InStorage(worker[w].info.Blobs))
         => worker'[w].pc = "cacheBlob"]_vars

\* The message waitingQueue saw last when it returns in this step is completed
SawCompleted(w) ==
  IF worker[w].pc = "watch" THEN worker[w].mr.Status = StatusCompleted
  ELSE /\ worker[w].info.Blobs \in DOMAIN message'
       /\ message'[worker[w].info.Blobs].Status = StatusCompleted

\* C40: when waitingQueue ends in an error (a failed message, an unexpected status
\* such as cleanup, Create or Watch failing), the worker records nothing in the blob
\* cache, keeps the entry and goes on to its own fetch from the origin; every error in
\* the blob cache was recorded after a request to the origin.
C40_QueueErrorThenFetch ==
  /\ [][\A w \in Workers :
          (QueueReturns(w) /\ (worker'[w].err # "" \/ ~SawCompleted(w)))
            => (worker'[w].err # "" /\ FetchesItself(w))]_vars
  /\ [](\A d \in DOMAIN blobCache : blobCache[d].Error # "" => upstream[d] > 0)

\* The message of a digest is failed or in cleanup, the worker that waited on it has
\* fetched from the origin, and the requester has its answer
C40_Witness ==
  \E c \in Clients :
    /\ areq[c].pc = "done"
    /\ areq[c].info.Blobs \in DOMAIN message
    /\ message[areq[c].info.Blobs].Status \in {StatusFailed, StatusCleanup}
    /\ upstream[areq[c].info.Blobs] > 0
    /\ areq[c].rw.code = 200

\* The admission workers that are in the handshake with the origin
Handshakes == {w \in Workers : worker[w].pc \in {"cacheBlob", "response"}}

\* C33: NewAgent starts `concurrency` admission workers, so at most `concurrency`
\* handshakes with the origin started by the admission queue are in progress at any
\* time.
C33_AtMostConcurrencyHandshakes == Cardinality(Handshakes) <= Concurrency

\* The download workers that drain the queue of size group g
DrainersOf(g) == {k \in DOMAIN pool.drains : pool.drains[k] = pool.groupQueue[g]}

\* C34: once NewAgent has returned, every download worker it started drains a queue
\* that is one of the entries of groupQueue, the ones admission workers hand downloads
\* to, and several workers drain the queue of size group 0: at least the
\* `concurrency*8/10 + 1` the second loop starts.
C34_WorkersDrainGroupQueues ==
  pool.pc = "done" =>
    /\ \A k \in DOMAIN pool.drains :
         \E g \in 0 .. GroupQueues - 1 : pool.drains[k] = pool.groupQueue[g]
    /\ Cardinality(DrainersOf(0)) >= (pool.concurrency * 8) \div 10 + 1
    /\ Cardinality(DrainersOf(0)) > 1

\* What PutWithHash asks of the bytes copied: the size, when one is given, and the hash
Checked(p) == (p.cacheSize > 0 => p.n = p.cacheSize) /\ p.hash = "right"

\* C37: Cache.put and Cache.PutWithHash commit the writer only when the copy succeeded
\* and the check of size and hash passed; on a copy error or a failed check the
\* writer is cancelled and never committed, the object under the key is what it was
\* before the call, and the call returns size 0 with the error.
C37_CommitOnlyChecked ==
  /\ put.writer = "committed" =>
       /\ put.pc = "done" /\ put.ret = [n |-> put.n, err |-> ""]
       /\ put.check => Checked(put)
  /\ (put.pc = "done" /\ put.ret.err \in {"copy", "expected bytes", "expected hash"}) =>
       /\ put.writer = "cancelled"
       /\ put.ret.n = 0
  /\ put.writer # "committed" => put.object = put.before

\* PutWithHash has returned the error of a hash that is not the expected one
C37_Witness ==
  /\ put.pc = "done"
  /\ put.check
  /\ put.ret.err = "expected hash"
  /\ put.writer = "cancelled"

\* The download bb is one for the big cache
ForBigCache(bb) == agent.hasBigCache /\ bb.ContentLength > BigCacheSize

\* C36: with a big cache and a Content-Length above bigCacheSize the download streams
\* the body to the big cache and not to the primary cache, and when the write
\* succeeded the blob cache gets an entry of the size written with BigCache set,
\* whether or not the primary cache holds the blob.
C36_BigBlobRecorded ==
  [][\A bb \in groupQueue :
       (Downloads(bb) /\ ForBigCache(bb)) =>
         LET d == bb.Info.Blobs IN
         /\ cache' = cache
         /\ bigCache' # bigCache =>
              /\ blobCache'[d].Error = ""
              /\ blobCache'[d].BigCache
              /\ blobCache'[d].Size = bigCache'[d]]_vars

\* The blob of a digest is in the cache cacheBlob writes a blob of its size to
StoredByFetch(d) ==
  IF agent.hasBigCache /\ d \in DOMAIN bigCache /\ bigCache[d] > BigCacheSize THEN TRUE
  ELSE d \in DOMAIN cache /\ ~(agent.hasBigCache /\ cache[d] > BigCacheSize)

\* C39: a request for a blob that is in the cache the fetch wrote it to, and for which
\* the blob cache holds no error, is answered by Agent.Serve without being queued for
\* another fetch, whatever the size of the blob.
C39_StoredBlobNotRefetched ==
  [][\A c \in Clients :
       (areq[c].pc = "serve" /\ areq'[c] # areq[c]
          /\ ~CachedError(areq[c].info.Blobs) /\ StoredByFetch(areq[c].info.Blobs))
         => areq'[c].pc # "add"]_vars

\* The workers and the downloads that hold the entry of a BlobInfo and its finish
WorkersHolding(info) == {w \in Workers : worker[w].pc # "get" /\ worker[w].info = info}
DownloadsHolding(info) == {bb \in groupQueue : bb.Info = info}

\* An entry that was popped is held by one worker or one download, and so is its
\* finish; nothing holds an entry that is finished or was not popped
OneHolder ==
  /\ \A info \in DOMAIN queue :
       Cardinality(WorkersHolding(info)) + Cardinality(DownloadsHolding(info))
         = IF queue[info].taken THEN 1 ELSE 0
  /\ \A w \in Workers : worker[w].pc # "get" => worker[w].info \in DOMAIN queue
  /\ \A bb \in groupQueue : bb.Info \in DOMAIN queue

\* The entry of a BlobInfo is finished in this step by its holder, at the end of the
\* holder's work: waitingQueue has returned on a completed message, the error of
\* cacheBlob is recorded, or the download has run
FinishedByHolder(info) ==
  /\ queue[info].taken
  /\ \/ \E w \in WorkersHolding(info) : QueueReturns(w) /\ SawCompleted(w)
     \/ \E w \in WorkersHolding(info) :
          /\ worker[w].pc = "cacheBlob"
          /\ info.Blobs \in DOMAIN blobCache' /\ blobCache'[info.Blobs].Error # ""
     \/ \E bb \in DownloadsHolding(info) :
          Downloads(bb) /\ info.Blobs \in DOMAIN blobCache'

Resolving == ucall.n # 0 /\ ucall.regErr = ""

\* The token record getToken builds from registry attributes
Effective(data) == [UserID |-> registryRecord.UserID, TokenID |-> 0, Data |-> data]

\* C14: with no userinfo the effective attributes are the special_ips entry for
\* token.ip when there is one (with the registry's user id), whatever
\* allow_anonymous says; otherwise registry.anonymous when allow_anonymous is set;
\* otherwise the call fails with "anonymous access is not allowed" and yields no
\* attributes. The token service is not asked.
C14_AnonymousAttributes ==
  (Resolving /\ ucall.userinfo = << >>) =>
    /\ ~ucall.tokCalled
    /\ IF ucall.t.IP \in DOMAIN registryRecord.Data.SpecialIPs
       THEN ucall.err = "" /\ ucall.tok = Effective(registryRecord.Data.SpecialIPs[ucall.t.IP])
       ELSE IF registryRecord.Data.AllowAnonymous
       THEN ucall.err = "" /\ ucall.tok = Effective(registryRecord.Data.Anonymous)
       ELSE /\ ucall.err = "anonymous access is not allowed"
            /\ ucall.attr = ZeroAttribute

\* C14, witness: a call without userinfo from a special IP at a registry that does
\* not allow anonymous access, answered with the special attributes
C14_Witness ==
  /\ Resolving /\ ucall.userinfo = << >>
  /\ ~registryRecord.Data.AllowAnonymous
  /\ ucall.t.IP = "10.0.0.1" /\ ucall.t.IP \in DOMAIN registryRecord.Data.SpecialIPs
  /\ ucall.err = "" /\ ucall.tok.Data = SpecialData /\ ucall.attr.UserID = 7

\* A step that is a call of GetTokenWithUser
CallStep == ucall'.n # ucall.n

\* min(default_ttl, registry.ttl_seconds), an unset ttl_seconds leaving default_ttl
MinTTL ==
  IF registryRecord.Data.TTLSecond > 0 /\ registryRecord.Data.TTLSecond < cacheTTL
  THEN registryRecord.Data.TTLSecond ELSE cacheTTL

\* The call reaches the token-record lookup for the key of its userinfo
LooksUpToken == ucall'.regErr = "" /\ ucall'.userinfo # << >>

KeyOf(userinfo) == <<registryRecord.UserID, userinfo[1], userinfo[2]>>

\* C15 as claimed: a record put into the registry cache or the token-record cache
\* expires after min(default_ttl, registry.ttl_seconds): a call later than default_ttl
\* after the record was loaded asks the backing service again, and a call within
\* the TTL is answered from the cache without asking it.
C15_ExpiresWithinDefaultTTL ==
  [][CallStep =>
       /\ \A up \in DOMAIN registryCache :
            (up = ucall'.t.Service /\ registryCache[up].err = "") =>
              /\ authNow > registryCache[up].loaded + cacheTTL => ucall'.regCalled
              /\ authNow < registryCache[up].loaded + MinTTL =>
                   (~ucall'.regCalled /\ ucall'.regErr = "")
       /\ \A up \in DOMAIN tokenCache :
            (LooksUpToken /\ up = KeyOf(ucall'.userinfo) /\ tokenCache[up].err = "") =>
              /\ authNow > tokenCache[up].loaded + cacheTTL => ucall'.tokCalled
              /\ authNow < tokenCache[up].loaded + MinTTL =>
                   (~ucall'.tokCalled /\ ucall'.tok = tokenCache[up].attr)]_vars

\* C16: a failed registry or token-record lookup is cached for default_ttl: a call
\* for the same key within that time returns the same error without asking the
\* backing service, and a call after that time asks the service again.
C16_ErrorCachedForDefaultTTL ==
  [][CallStep =>
       /\ \A up \in DOMAIN registryCache :
            (up = ucall'.t.Service /\ registryCache[up].err # "") =>
              /\ authNow < registryCache[up].loaded + cacheTTL =>
                   /\ ~ucall'.regCalled /\ ~ucall'.tokCalled
                   /\ ucall'.err = registryCache[up].err
                   /\ ucall'.attr = ZeroAttribute
              /\ authNow > registryCache[up].loaded + cacheTTL => ucall'.regCalled
       /\ \A up \in DOMAIN tokenCache :
            (LooksUpToken /\ up = KeyOf(ucall'.userinfo) /\ tokenCache[up].err # "") =>
              /\ authNow < tokenCache[up].loaded + cacheTTL =>
                   /\ ~ucall'.tokCalled
                   /\ ucall'.err = tokenCache[up].err
                   /\ ucall'.attr = ZeroAttribute
              /\ authNow > tokenCache[up].loaded + cacheTTL => ucall'.tokCalled]_vars

\* C16, witness: eight seconds after a registry lookup failed, a call is answered
\* with the cached error and the registry service is not asked
C16_Witness ==
  /\ ucall.n # 0 /\ authNow = 8
  /\ ucall.err \in RegErrors /\ ~ucall.regCalled
  /\ \E up \in DOMAIN registryCache :
       /\ up = ucall.t.Service
       /\ registryCache[up].loaded = 0 /\ registryCache[up].err = ucall.err

\* The call went through getHostAndImage: both lookups succeeded, the token record
\* is not blocked and the token has an image claim
SplitsImage ==
  /\ Resolving /\ ucall.err = ""
  /\ ~ucall.tok.Data.Block
  /\ ucall.t.Image # << >>

\* C17: getHostAndImage(repo, allow_prefix, source) returns (seg0, rest) when the
\* first segment of repo is a domain name with a dot and allow_prefix is set; in
\* every other case it returns (source, repo) when source is non-empty; it fails
\* with "invalid repository", the token then being blocked, only when neither
\* applies.
C17_HostAndImage ==
  SplitsImage =>
    LET repo == ucall.t.Image
        data == registryRecord.Data
    IN
    IF Len(repo) > 1 /\ IsDotDomain(repo[1]) /\ data.AllowPrefix
    THEN ucall.attr.Host = repo[1] /\ ucall.attr.Image = Tail(repo)
    ELSE IF data.Source # ""
    THEN ucall.attr.Host = data.Source /\ ucall.attr.Image = repo
    ELSE /\ ucall.attr.Block /\ ucall.attr.BlockMessage = "invalid repository"
         /\ ucall.attr.Host = ""

\* The registry has the allowlist enabled and the effective token does not waive it
AllowlistApplies ==
  /\ Resolving /\ ucall.err = ""
  /\ registryRecord.Data.EnableAllowlist
  /\ ~ucall.tok.Data.NoAllowlist

\* C18: when the allowlist applies, the attribute bundle has block set unless
\* host + "/" + image matches the allowlist, for every token, with or without an
\* image claim; a token that waives the allowlist is never blocked by it.
C18_AllowlistBlocks ==
  /\ AllowlistApplies =>
       (ucall.attr.Block \/ HostImage(ucall.attr.Host, ucall.attr.Image) \in Allowlist)
  /\ (Resolving /\ ucall.err = "" /\ ucall.tok.Data.NoAllowlist /\ ucall.attr.Block) =>
       (ucall.tok.Data.Block \/ ucall.attr.BlockMessage = "invalid repository")

=============================================================================
